---- MODULE Spec2Model ----
(***************************************************************************)
(* Model of the mdt-cli ticket summariser (src/mdt-cli).                   *)
(*                                                                         *)
(* Python strings are TLA+ strings; a character is a string of length 1.   *)
(* The bullet character U+2022 cannot be spelled in a module, so the       *)
(* character named BULLET stands for it everywhere.                        *)
(***************************************************************************)
EXTENDS Integers, Sequences, FiniteSets, TLC

(***************************************************************************)
(* Python str primitives                                                   *)
(***************************************************************************)

\* U+2022, the bullet of '• ' and of startswith(('-', '*', '•')).
BULLET == "@"

\* s[i] (1-based).
Char(s, i) == SubSeq(s, i, i)

\* s[:n]
Prefix(s, n) == IF n >= Len(s) THEN s ELSE SubSeq(s, 1, n)

\* str.isspace() of one character, for the characters the inputs use.
IsSpace(c) == c \in {" ", "\n", "\t", "\r"}

\* c * n
RECURSIVE Rep(_, _)
Rep(c, n) ==
    IF n <= 0 THEN ""
    ELSE IF n = 1 THEN c
    ELSE Rep(c, n \div 2) \o Rep(c, n - (n \div 2))

\* s.strip()
Strip(s) ==
    LET n == Len(s)
        Ink(i) == ~IsSpace(Char(s, i))
    IN  IF \A i \in 1..n : ~Ink(i) THEN ""
        ELSE LET a == CHOOSE i \in 1..n : Ink(i) /\ \A j \in 1..(i - 1) : ~Ink(j)
                 k == CHOOSE t \in 0..(n - 1) :
                          Ink(n - t) /\ \A j \in (n - t + 1)..n : ~Ink(j)
             IN  SubSeq(s, a, n - k)

\* len(s.split()): the number of maximal runs of non-whitespace characters.
WordCount(s) ==
    Cardinality({i \in 1..Len(s) :
        /\ ~IsSpace(Char(s, i))
        /\ (i = 1 \/ IsSpace(Char(s, i - 1)))})

\* p in s
Contains(s, p) ==
    \E i \in 1..(Len(s) - Len(p) + 1) : SubSeq(s, i, i + Len(p) - 1) = p

\* s.startswith(p), s.endswith(p)
StartsWith(s, p) == Len(p) <= Len(s) /\ SubSeq(s, 1, Len(p)) = p
EndsWith(s, p) == Len(p) <= Len(s) /\ SubSeq(s, Len(s) - Len(p) + 1, Len(s)) = p

\* c.lower() of one character.
LowerChar(c) ==
    CASE c = "A" -> "a" [] c = "B" -> "b" [] c = "C" -> "c" [] c = "D" -> "d"
      [] c = "E" -> "e" [] c = "F" -> "f" [] c = "G" -> "g" [] c = "H" -> "h"
      [] c = "I" -> "i" [] c = "J" -> "j" [] c = "K" -> "k" [] c = "L" -> "l"
      [] c = "M" -> "m" [] c = "N" -> "n" [] c = "O" -> "o" [] c = "P" -> "p"
      [] c = "Q" -> "q" [] c = "R" -> "r" [] c = "S" -> "s" [] c = "T" -> "t"
      [] c = "U" -> "u" [] c = "V" -> "v" [] c = "W" -> "w" [] c = "X" -> "x"
      [] c = "Y" -> "y" [] c = "Z" -> "z" [] OTHER -> c

\* s.lower()
RECURSIVE Lower(_)
Lower(s) ==
    IF Len(s) = 0 THEN ""
    ELSE IF Len(s) = 1 THEN LowerChar(s)
    ELSE LET h == Len(s) \div 2
         IN  Lower(SubSeq(s, 1, h)) \o Lower(SubSeq(s, h + 1, Len(s)))

\* s.find(p, i): the first position >= i where p occurs in s, 0 if none.
Find(s, p, i) ==
    LET last == Len(s) - Len(p) + 1
        At(j) == SubSeq(s, j, j + Len(p) - 1) = p
    IN  IF \E j \in i..last : At(j)
        THEN CHOOSE j \in i..last : At(j) /\ \A k \in i..(j - 1) : ~At(k)
        ELSE 0

\* s.split(sep): the pieces between the non-overlapping occurrences of sep,
\* found left to right.
RECURSIVE SplitFrom(_, _, _)
SplitFrom(s, sep, start) ==
    LET j == Find(s, sep, start)
    IN  IF j = 0
        THEN <<SubSeq(s, start, Len(s))>>
        ELSE <<SubSeq(s, start, j - 1)>> \o SplitFrom(s, sep, j + Len(sep))

Split(s, sep) == SplitFrom(s, sep, 1)

\* s.replace(old, ""), scanning left to right.
RECURSIVE RemoveFrom(_, _, _)
RemoveFrom(s, old, start) ==
    LET j == Find(s, old, start)
    IN  IF j = 0
        THEN SubSeq(s, start, Len(s))
        ELSE SubSeq(s, start, j - 1) \o RemoveFrom(s, old, j + Len(old))

Remove(s, old) == RemoveFrom(s, old, 1)

\* s.rsplit(' ', 1)[0]
RSplitSpaceHead(s) ==
    LET sp == {i \in 1..Len(s) : Char(s, i) = " "}
    IN  IF sp = {} THEN s
        ELSE LET k == CHOOSE i \in sp : \A j \in (i + 1)..Len(s) : j \notin sp
             IN  SubSeq(s, 1, k - 1)

\* ' '.join(xs)
RECURSIVE JoinSpace(_)
JoinSpace(xs) ==
    IF Len(xs) = 0 THEN ""
    ELSE IF Len(xs) = 1 THEN xs[1]
    ELSE xs[1] \o " " \o JoinSpace(Tail(xs))

\* '\n'.join(lines)
RECURSIVE JoinLines(_)
JoinLines(lines) ==
    IF Len(lines) = 0 THEN ""
    ELSE IF Len(lines) = 1 THEN lines[1]
    ELSE lines[1] \o "\n" \o JoinLines(Tail(lines))

\* [x.strip() for x in xs]
StripAll(xs) == [i \in 1..Len(xs) |-> Strip(xs[i])]

\* xs[:n]
Take(xs, n) == IF n >= Len(xs) THEN xs ELSE SubSeq(xs, 1, n)

(***************************************************************************)
(* src/mdt-cli/llm_processor.py: constants                                 *)
(***************************************************************************)

\* generate_summary: len(content) > 500 selects the three-attempt ladder.
LongContentThreshold == 500

\* _generate_summary_with_attempts: range(1, 4), the last attempt is 3.
LastAttempt == 3

\* _get_attempt_params: content[:800] on the second attempt.
SecondAttemptChars == 800

\* _is_valid_summary: 5 <= word count <= 30, len(summary) <= 250, at most 2
\* non-blank lines.
MinWords == 5
MaxWords == 30
MaxSummaryChars == 250
MaxSummaryLines == 2

\* _is_meaningful_line: len(line) > 20; _extract_meaningful_sentences:
\* len(clean_line) > 30 and the break at 3 collected lines.
MinLineChars == 20
MinCleanChars == 30
MaxCollected == 3

\* _extract_simple_sentences: len(s.strip()) > 20, sentences[:3].
MinSentenceChars == 20
SentencesChecked == 3

\* _format_summary_from_sentences: sentences[:2], the 150 and 120 cuts.
SentencesJoined == 2
LongCut == 150
ShortCut == 120

NoContentSummary == "No content available for summary"
UnableSummary == "Unable to generate summary from content"
FailedSummary == "Summary generation failed"

\* Python's None.
None == "<None>"

(***************************************************************************)
(* src/mdt-cli/llm_processor.py: pure functions                            *)
(***************************************************************************)

\* any(p in s for p in ps)
ContainsAny(s, ps) == \E p \in ps : Contains(s, p)

_get_system_prompt ==
    "You are a ticket-document reviewer, you provide professional short summary of a user text in 10-20 words.\n"
    \o "Make a short summary of the user's text and explain:\n"
    \o "- The essence of the fix or improvement being discussed in the document.\n"
    \o "- Add technical specifics only.\n"
    \o "- Provide straightforward text.\n"
    \o "Restrictions:\n"
    \o "- DO NOT mention information reflected in title content.\n"
    \o "- DO NOT add comments.\n"
    \o "- DO not use markdown formatting.\n"
    \o "\n"
    \o "Your summary:"

SecondAttemptSuffix ==
    "\n\nSummarize the key improvement or fix being described above in 10-20 words."

ThirdAttemptPrompt ==
    "Create a dashboard for managing multiple projects. What does this solve? Answer in 10 words maximum."

\* _get_attempt_params with the second attempt sending the whole content.
_get_attempt_params_full(content, attempt) ==
    IF attempt = 1
    THEN [user_content |-> content, temp |-> "0.3", max_tokens |-> 150]
    ELSE IF attempt = 2
    THEN [user_content |-> content \o SecondAttemptSuffix,
          temp |-> "0.2", max_tokens |-> 100]
    ELSE [user_content |-> ThirdAttemptPrompt, temp |-> "0.0", max_tokens |-> 40]

\* (user_content, temperature, max_tokens) of one attempt; the temperature is
\* kept as its decimal literal.
_get_attempt_params(content, attempt) ==
    IF attempt = 1
    THEN [user_content |-> content, temp |-> "0.3", max_tokens |-> 150]
    ELSE IF attempt = 2
    THEN [user_content |-> Prefix(content, SecondAttemptChars) \o SecondAttemptSuffix,
          temp |-> "0.2", max_tokens |-> 100]
    ELSE [user_content |-> ThirdAttemptPrompt, temp |-> "0.0", max_tokens |-> 40]

\* The non-blank lines of summary.split('\n').
NonBlankLines(summary) ==
    SelectSeq(Split(summary, "\n"), LAMBDA line : Strip(line) # "")

\* _is_valid_summary with the upper word bound off by one.
_is_valid_summary_strict(summary) ==
    /\ summary # ""
    /\ WordCount(summary) >= MinWords /\ WordCount(summary) < MaxWords
    /\ Len(summary) <= MaxSummaryChars
    /\ ~Contains(summary, "##")
    /\ Len(NonBlankLines(summary)) <= MaxSummaryLines
    /\ ~Contains(summary, "- ")
    /\ ~Contains(summary, BULLET \o " ")
    /\ ~Contains(summary, "* ")

_is_valid_summary(summary) ==
    IF summary = "" THEN FALSE
    ELSE IF WordCount(summary) < MinWords \/ WordCount(summary) > MaxWords THEN FALSE
    ELSE IF Len(summary) > MaxSummaryChars THEN FALSE
    ELSE IF Contains(summary, "###") \/ Contains(summary, "##") THEN FALSE
    ELSE IF Len(NonBlankLines(summary)) > MaxSummaryLines THEN FALSE
    ELSE IF \/ Contains(summary, "- ")
            \/ Contains(summary, BULLET \o " ")
            \/ Contains(summary, "* ") THEN FALSE
    ELSE TRUE

SkipSectionHeaders ==
    {"problem statement", "current state", "desired state",
     "current state:", "desired state:", "solution analysis",
     "implementation", "acceptance criteria", "rationale"}

MetadataKeywords ==
    {"efficiency:", "oversight:", "consistency:", "scalability:",
     "each project has its own", "users must manually navigate"}

\* _should_skip_line without the bullet and list item check.
_should_skip_line_no_bullets(line) ==
    IF StartsWith(line, "#") \/ (StartsWith(line, "**") /\ EndsWith(line, "**"))
    THEN TRUE
    ELSE IF ContainsAny(Lower(line), SkipSectionHeaders)
    THEN TRUE
    ELSE ContainsAny(Lower(line), MetadataKeywords)

_should_skip_line(line) ==
    IF StartsWith(line, "#") \/ (StartsWith(line, "**") /\ EndsWith(line, "**"))
    THEN TRUE
    ELSE IF ContainsAny(Lower(line), SkipSectionHeaders)
    THEN TRUE
    ELSE IF StartsWith(line, "-") \/ StartsWith(line, "*") \/ StartsWith(line, BULLET)
    THEN TRUE
    ELSE ContainsAny(Lower(line), MetadataKeywords)

SectionHeaders ==
    {"problem statement", "current state", "desired state",
     "solution analysis", "implementation", "acceptance criteria"}

_is_section_header(line) == ContainsAny(Lower(line), SectionHeaders)

_is_meaningful_line(line) == Len(line) > MinLineChars /\ ~StartsWith(line, "-")

_clean_line(line) == Strip(Remove(Remove(line, "**"), "*"))

\* The loop without its break: it scans every line.
RECURSIVE ExtractLoopNoBreak(_, _, _, _)
ExtractLoopNoBreak(lines, i, filtered_lines, skip_section) ==
    IF i > Len(lines) THEN filtered_lines
    ELSE LET line == Strip(lines[i])
         IN  IF line = ""
             THEN ExtractLoopNoBreak(lines, i + 1, filtered_lines, skip_section)
             ELSE IF _should_skip_line(line)
             THEN ExtractLoopNoBreak(lines, i + 1, filtered_lines,
                                     skip_section \/ _is_section_header(line))
             ELSE LET clean_line == _clean_line(line)
                      keep == /\ ~skip_section
                              /\ _is_meaningful_line(line)
                              /\ Len(clean_line) > MinCleanChars
                  IN  ExtractLoopNoBreak(lines, i + 1,
                                         IF keep THEN Append(filtered_lines, clean_line)
                                         ELSE filtered_lines,
                                         skip_section)

\* The loop of _extract_meaningful_sentences from line i on, with the lines
\* collected so far and the skip_section flag.
RECURSIVE ExtractLoop(_, _, _, _)
ExtractLoop(lines, i, filtered_lines, skip_section) ==
    IF i > Len(lines) THEN filtered_lines
    ELSE LET line == Strip(lines[i])
         IN  IF line = ""
             THEN ExtractLoop(lines, i + 1, filtered_lines, skip_section)
             ELSE IF _should_skip_line(line)
             THEN ExtractLoop(lines, i + 1, filtered_lines,
                              skip_section \/ _is_section_header(line))
             ELSE LET clean_line == _clean_line(line)
                      keep == /\ ~skip_section
                              /\ _is_meaningful_line(line)
                              /\ Len(clean_line) > MinCleanChars
                      collected == IF keep THEN Append(filtered_lines, clean_line)
                                   ELSE filtered_lines
                      flag == IF keep THEN FALSE ELSE skip_section
                  IN  IF Len(collected) >= MaxCollected
                      THEN collected
                      ELSE ExtractLoop(lines, i + 1, collected, flag)

_extract_meaningful_sentences(content) ==
    ExtractLoop(Split(content, "\n"), 1, <<>>, FALSE)

ProblematicPhrases == {"managing multiple projects", "each project has", "users must"}

\* _extract_simple_sentences checking every sentence, not the first ones.
_extract_simple_sentences_all(content) ==
    LET sentences ==
            StripAll(SelectSeq(Split(content, ". "),
                               LAMBDA p : Strip(p) # "" /\ Len(Strip(p)) > MinSentenceChars))
        ok == {i \in 1..Len(sentences) :
                  ~ContainsAny(Lower(sentences[i]), ProblematicPhrases)}
    IN  IF ok # {}
        THEN <<sentences[CHOOSE i \in ok : \A j \in ok : i <= j]>>
        ELSE Take(sentences, 1)

_extract_simple_sentences(content) ==
    LET sentences ==
            StripAll(SelectSeq(Split(content, ". "),
                               LAMBDA p : Strip(p) # "" /\ Len(Strip(p)) > MinSentenceChars))
        checked == Take(sentences, SentencesChecked)
        ok == {i \in 1..Len(checked) : ~ContainsAny(Lower(checked[i]), ProblematicPhrases)}
    IN  IF ok # {}
        THEN <<checked[CHOOSE i \in ok : \A j \in ok : i <= j]>>
        ELSE Take(sentences, 1)

_format_summary_from_sentences(sentences) ==
    IF Len(sentences) = 0 THEN UnableSummary
    ELSE LET summary_text == JoinSpace(Take(sentences, SentencesJoined))
         IN  IF Len(summary_text) > LongCut
             THEN RSplitSpaceHead(Prefix(summary_text, LongCut)) \o "..."
             ELSE IF Len(summary_text) > ShortCut
             THEN RSplitSpaceHead(Prefix(summary_text, ShortCut)) \o "..."
             ELSE summary_text

\* _fallback_summary joining whatever was extracted, without the check that
\* something was.
_fallback_summary_unchecked(content) ==
    LET meaningful_sentences == _extract_meaningful_sentences(content)
    IN  IF Len(meaningful_sentences) > 0
        THEN _format_summary_from_sentences(meaningful_sentences)
        ELSE JoinSpace(Take(_extract_simple_sentences(content), SentencesJoined))

\* No step of the body raises on a str, so the except branch that returns
\* FailedSummary is never taken.
_fallback_summary(content) ==
    LET meaningful_sentences == _extract_meaningful_sentences(content)
    IN  IF Len(meaningful_sentences) > 0
        THEN _format_summary_from_sentences(meaningful_sentences)
        ELSE LET simple_sentences == _extract_simple_sentences(content)
             IN  IF Len(simple_sentences) > 0
                 THEN _format_summary_from_sentences(simple_sentences)
                 ELSE UnableSummary

(***************************************************************************)
(* Inputs                                                                  *)
(***************************************************************************)

\* How far past a length threshold the generated texts go.
MaxOver == 1

\* The longest text built from lines has this many lines.
MaxTextLines == 2

\* Candidate summaries have up to MaxWords + MaxExtraWords words.
MaxExtraWords == 1

\* n characters without whitespace.
Solid(n) == Rep("x", n)

\* n characters of words separated by single spaces.
Spaced(n) == Prefix(Rep("lorem ipsum dolor sit amet ", (n \div 27) + 1), n)

\* n one-letter words separated by single spaces.
Words(n) == IF n <= 0 THEN "" ELSE Rep("w ", n - 1) \o "w"

ShortRationale == "Operators lose queued work today."

\* len("Description: ") + len("\n\nRationale: ")
LabelChars == 26

ShortDescriptions ==
    {"",
     "Fix typo",
     "Add retry logic to the export job so transient upload errors recover",
     "- item one\n- item two",
     "- Replace the polling loop with a websocket subscription. It removes the idle load on the server",
     "## Problem Statement\nThe scheduler drops queued jobs when the worker pool is saturated"}

\* The (description, rationale) pairs generate_summary is called with: short
\* texts with and without a rationale, and contents whose length is around
\* the 500 and 800 character thresholds.
Inputs ==
    (ShortDescriptions \X {"", ShortRationale})
    \cup {<<Solid(n), "">> :
            n \in (LongContentThreshold - 1)..(LongContentThreshold + MaxOver)}
    \cup {<<Solid(LongContentThreshold - LabelChars - Len(ShortRationale) + k),
            ShortRationale>> : k \in {-1} \cup 0..MaxOver}
    \cup {<<Spaced(n), "">> :
            n \in (SecondAttemptChars - 1)..(SecondAttemptChars + MaxOver)}

\* Config.get_max_retries(): any integer the environment sets.
MaxRetriesValues == {1, 5}

ValidOutput == "Adds bounded retries to the export job for transient upload errors"

\* What the generation backend may write as lm['output'].
BackendOutputs ==
    {"", " \n", ValidOutput, "  " \o Words(MaxWords) \o "\n", Words(MaxWords + 1)}

\* One call of the backend: it raises, or it returns an output.
BackendOutcomes ==
    {[raised |-> TRUE, output |-> ""]}
    \cup {[raised |-> FALSE, output |-> out] : out \in BackendOutputs}

(***************************************************************************)
(* MCPClient: values exchanged with the MCP server                         *)
(*                                                                         *)
(* A parsed JSON value carries the name of its Python type in t.  A dict   *)
(* is the sequence of its <<key, value>> pairs in document order.  The     *)
(* two icons that open the server's headers cannot be spelled in a module: *)
(* DOC_ICON and BOOK_ICON stand for them everywhere.                       *)
(***************************************************************************)

DOC_ICON == "$"
BOOK_ICON == "%"

JStr(s) == [t |-> "str", s |-> s]
JNum(n) == [t |-> "int", n |-> n]
JNull == [t |-> "NoneType"]
JList(xs) == [t |-> "list", items |-> xs]
JDict(kv) == [t |-> "dict", items |-> kv]

\* k in d, d[k]
HasKey(d, k) == \E i \in 1..Len(d.items) : d.items[i][1] = k
Get(d, k) == d.items[CHOOSE i \in 1..Len(d.items) : d.items[i][1] = k][2]

\* bool(v)
Truthy(v) ==
    CASE v.t = "str" -> v.s # ""
      [] v.t = "int" -> v.n # 0
      [] v.t = "NoneType" -> FALSE
      [] OTHER -> Len(v.items) > 0

\* str(n) of an integer.
RECURSIVE IntStr(_)
IntStr(n) ==
    IF n < 0 THEN "-" \o IntStr(0 - n)
    ELSE IF n < 10 THEN SubSeq("0123456789", n + 1, n + 1)
    ELSE IntStr(n \div 10) \o IntStr(n % 10)

\* ', '.join(xs)
RECURSIVE JoinComma(_)
JoinComma(xs) ==
    IF Len(xs) = 0 THEN ""
    ELSE IF Len(xs) = 1 THEN xs[1]
    ELSE xs[1] \o ", " \o JoinComma(Tail(xs))

\* repr(v), for strings without quotes or escapes.
RECURSIVE PyRepr(_)
PyRepr(v) ==
    CASE v.t = "str" -> "'" \o v.s \o "'"
      [] v.t = "int" -> IntStr(v.n)
      [] v.t = "NoneType" -> "None"
      [] v.t = "list" ->
            "[" \o JoinComma([i \in 1..Len(v.items) |-> PyRepr(v.items[i])]) \o "]"
      [] OTHER ->
            "{" \o JoinComma([i \in 1..Len(v.items) |->
                    "'" \o v.items[i][1] \o "': " \o PyRepr(v.items[i][2])]) \o "}"

\* str(v), as an f-string formats it.
PyStr(v) == IF v.t = "str" THEN v.s ELSE PyRepr(v)

\* What a call produces: a returned value or a raised exception.
Return(v) == [kind |-> "return", value |-> v, type |-> "", msg |-> ""]
Raise(type, msg) == [kind |-> "raise", value |-> JNull, type |-> type, msg |-> msg]

(***************************************************************************)
(* Lines the server writes to its standard output, with what json.loads    *)
(* makes of each.                                                          *)
(***************************************************************************)

Documents ==
    {[name |-> "TwoTexts", ok |-> TRUE, err |-> "",
     text |->
        "{\"jsonrpc\":\"2.0\",\"id\":1,\"result\":{\"content\":[{\"type\":\"text\",\"text\":\"A\"},{\"type\":\"text\",\"text\":\"B\"}]}}",
     value |->
        JDict(<<<<"jsonrpc", JStr("2.0")>>, <<"id", JNum(1)>>, <<"result",
        JDict(<<<<"content", JList(<<JDict(<<<<"type", JStr("text")>>,
        <<"text", JStr("A")>>>>), JDict(<<<<"type", JStr("text")>>, <<"text",
        JStr("B")>>>>)>>)>>>>)>>>>)],
     [name |-> "MixedItems", ok |-> TRUE, err |-> "",
     text |->
        "{\"jsonrpc\":\"2.0\",\"id\":1,\"result\":{\"content\":[{\"type\":\"text\",\"text\":\"A\"},{\"type\":\"image\",\"data\":\"aW1n\"},{\"type\":\"resource\",\"text\":\"R\"},\"x\",{\"type\":\"text\",\"text\":\"B\"}]}}",
     value |->
        JDict(<<<<"jsonrpc", JStr("2.0")>>, <<"id", JNum(1)>>, <<"result",
        JDict(<<<<"content", JList(<<JDict(<<<<"type", JStr("text")>>,
        <<"text", JStr("A")>>>>), JDict(<<<<"type", JStr("image")>>, <<"data",
        JStr("aW1n")>>>>), JDict(<<<<"type", JStr("resource")>>, <<"text",
        JStr("R")>>>>), JStr("x"), JDict(<<<<"type", JStr("text")>>, <<"text",
        JStr("B")>>>>)>>)>>>>)>>>>)],
     [name |-> "EmptyList", ok |-> TRUE, err |-> "",
     text |->
        "{\"jsonrpc\":\"2.0\",\"id\":1,\"result\":{\"content\":[]}}",
     value |->
        JDict(<<<<"jsonrpc", JStr("2.0")>>, <<"id", JNum(1)>>, <<"result",
        JDict(<<<<"content", JList(<<>>)>>>>)>>>>)],
     [name |-> "NoTextItems", ok |-> TRUE, err |-> "",
     text |->
        "{\"jsonrpc\":\"2.0\",\"id\":1,\"result\":{\"content\":[{\"type\":\"image\",\"data\":\"aW1n\"}]}}",
     value |->
        JDict(<<<<"jsonrpc", JStr("2.0")>>, <<"id", JNum(1)>>, <<"result",
        JDict(<<<<"content", JList(<<JDict(<<<<"type", JStr("image")>>,
        <<"data", JStr("aW1n")>>>>)>>)>>>>)>>>>)],
     [name |-> "EmptyText", ok |-> TRUE, err |-> "",
     text |->
        "{\"jsonrpc\":\"2.0\",\"id\":1,\"result\":{\"content\":[{\"type\":\"text\",\"text\":\"\"}]}}",
     value |->
        JDict(<<<<"jsonrpc", JStr("2.0")>>, <<"id", JNum(1)>>, <<"result",
        JDict(<<<<"content", JList(<<JDict(<<<<"type", JStr("text")>>,
        <<"text", JStr("")>>>>)>>)>>>>)>>>>)],
     [name |-> "PlainResult", ok |-> TRUE, err |-> "",
     text |->
        "{\"jsonrpc\":\"2.0\",\"id\":1,\"result\":\"pong\"}",
     value |->
        JDict(<<<<"jsonrpc", JStr("2.0")>>, <<"id", JNum(1)>>, <<"result",
        JStr("pong")>>>>)],
     [name |-> "NullResult", ok |-> TRUE, err |-> "",
     text |->
        "{\"jsonrpc\":\"2.0\",\"id\":1,\"result\":null}",
     value |->
        JDict(<<<<"jsonrpc", JStr("2.0")>>, <<"id", JNum(1)>>, <<"result",
        JNull>>>>)],
     [name |-> "DictResult", ok |-> TRUE, err |-> "",
     text |->
        "{\"jsonrpc\":\"2.0\",\"id\":1,\"result\":{\"status\":\"ok\"}}",
     value |->
        JDict(<<<<"jsonrpc", JStr("2.0")>>, <<"id", JNum(1)>>, <<"result",
        JDict(<<<<"status", JStr("ok")>>>>)>>>>)],
     [name |-> "ContentNotList", ok |-> TRUE, err |-> "",
     text |->
        "{\"jsonrpc\":\"2.0\",\"id\":1,\"result\":{\"content\":\"raw\"}}",
     value |->
        JDict(<<<<"jsonrpc", JStr("2.0")>>, <<"id", JNum(1)>>, <<"result",
        JDict(<<<<"content", JStr("raw")>>>>)>>>>)],
     [name |-> "IntText", ok |-> TRUE, err |-> "",
     text |->
        "{\"jsonrpc\":\"2.0\",\"id\":1,\"result\":{\"content\":[{\"type\":\"text\",\"text\":\"A\"},{\"type\":\"text\",\"text\":7}]}}",
     value |->
        JDict(<<<<"jsonrpc", JStr("2.0")>>, <<"id", JNum(1)>>, <<"result",
        JDict(<<<<"content", JList(<<JDict(<<<<"type", JStr("text")>>,
        <<"text", JStr("A")>>>>), JDict(<<<<"type", JStr("text")>>, <<"text",
        JNum(7)>>>>)>>)>>>>)>>>>)],
     [name |-> "ToolErr", ok |-> TRUE, err |-> "",
     text |->
        "{\"jsonrpc\":\"2.0\",\"id\":1,\"error\":{\"code\":-32000,\"message\":\"CR not found\"}}",
     value |->
        JDict(<<<<"jsonrpc", JStr("2.0")>>, <<"id", JNum(1)>>, <<"error",
        JDict(<<<<"code", JNum(-32000)>>, <<"message",
        JStr("CR not found")>>>>)>>>>)],
     [name |-> "ErrAndResult", ok |-> TRUE, err |-> "",
     text |->
        "{\"jsonrpc\":\"2.0\",\"id\":1,\"result\":{\"content\":[{\"type\":\"text\",\"text\":\"A\"}]},\"error\":\"boom\"}",
     value |->
        JDict(<<<<"jsonrpc", JStr("2.0")>>, <<"id", JNum(1)>>, <<"result",
        JDict(<<<<"content", JList(<<JDict(<<<<"type", JStr("text")>>,
        <<"text", JStr("A")>>>>)>>)>>>>)>>, <<"error", JStr("boom")>>>>)],
     [name |-> "Neither", ok |-> TRUE, err |-> "",
     text |->
        "{\"jsonrpc\":\"2.0\",\"id\":1}",
     value |->
        JDict(<<<<"jsonrpc", JStr("2.0")>>, <<"id", JNum(1)>>>>)],
     [name |-> "AttrsFull", ok |-> TRUE, err |-> "",
     text |->
        "{\"jsonrpc\":\"2.0\",\"id\":1,\"result\":{\"content\":[{\"type\":\"text\",\"text\":\"$ **MDT-066 - Queue retries**\\n\\n- Status: In Progress\\n- Type: Feature Enhancement\\n- Priority: High\\n\"}]}}",
     value |->
        JDict(<<<<"jsonrpc", JStr("2.0")>>, <<"id", JNum(1)>>, <<"result",
        JDict(<<<<"content", JList(<<JDict(<<<<"type", JStr("text")>>,
        <<"text",
        JStr("$ **MDT-066 - Queue retries**\n\n- Status: In Progress\n- Type: Feature Enhancement\n- Priority: High\n")>>>>)>>)>>>>)>>>>)],
     [name |-> "AttrsBare", ok |-> TRUE, err |-> "",
     text |->
        "{\"jsonrpc\":\"2.0\",\"id\":1,\"result\":{\"content\":[{\"type\":\"text\",\"text\":\"CR MDT-066\\n- Status: Proposed\"}]}}",
     value |->
        JDict(<<<<"jsonrpc", JStr("2.0")>>, <<"id", JNum(1)>>, <<"result",
        JDict(<<<<"content", JList(<<JDict(<<<<"type", JStr("text")>>,
        <<"text", JStr("CR MDT-066\n- Status: Proposed")>>>>)>>)>>>>)>>>>)],
     [name |-> "SectionDescription", ok |-> TRUE, err |-> "",
     text |->
        "{\"jsonrpc\":\"2.0\",\"id\":1,\"result\":{\"content\":[{\"type\":\"text\",\"text\":\"% **Section Content from CR MDT-066**\\n\\n**Section:** ## Description\\n**Content Length:** 33 characters\\n\\n---\\n\\nOperators lose queued work today.\\n\\n---\\n\\nUse update_cr_section to modify.\"}]}}",
     value |->
        JDict(<<<<"jsonrpc", JStr("2.0")>>, <<"id", JNum(1)>>, <<"result",
        JDict(<<<<"content", JList(<<JDict(<<<<"type", JStr("text")>>,
        <<"text",
        JStr("% **Section Content from CR MDT-066**\n\n**Section:** ## Description\n**Content Length:** 33 characters\n\n---\n\nOperators lose queued work today.\n\n---\n\nUse update_cr_section to modify.")>>>>)>>)>>>>)>>>>)],
     [name |-> "SectionRationale", ok |-> TRUE, err |-> "",
     text |->
        "{\"jsonrpc\":\"2.0\",\"id\":1,\"result\":{\"content\":[{\"type\":\"text\",\"text\":\"% **Section Content from CR MDT-066**\\n\\n**Section:** ## Rationale\\n**Content Length:** 32 characters\\n\\n---\\n\\nRetries keep the queue draining.\\n\\n---\\n\\nUse update_cr_section to modify.\"}]}}",
     value |->
        JDict(<<<<"jsonrpc", JStr("2.0")>>, <<"id", JNum(1)>>, <<"result",
        JDict(<<<<"content", JList(<<JDict(<<<<"type", JStr("text")>>,
        <<"text",
        JStr("% **Section Content from CR MDT-066**\n\n**Section:** ## Rationale\n**Content Length:** 32 characters\n\n---\n\nRetries keep the queue draining.\n\n---\n\nUse update_cr_section to modify.")>>>>)>>)>>>>)>>>>)],
     [name |-> "SectionBlank", ok |-> TRUE, err |-> "",
     text |->
        "{\"jsonrpc\":\"2.0\",\"id\":1,\"result\":{\"content\":[{\"type\":\"text\",\"text\":\"% **Section Content from CR MDT-066**\\n\\n**Section:** ## Description\\n**Content Length:** 0 characters\\n\\n---\\n\\n\\n\\n---\\n\\nUse update_cr_section to modify.\"}]}}",
     value |->
        JDict(<<<<"jsonrpc", JStr("2.0")>>, <<"id", JNum(1)>>, <<"result",
        JDict(<<<<"content", JList(<<JDict(<<<<"type", JStr("text")>>,
        <<"text",
        JStr("% **Section Content from CR MDT-066**\n\n**Section:** ## Description\n**Content Length:** 0 characters\n\n---\n\n\n\n---\n\nUse update_cr_section to modify.")>>>>)>>)>>>>)>>>>)],
     [name |-> "SectionLong", ok |-> TRUE, err |-> "",
     text |->
        "{\"jsonrpc\":\"2.0\",\"id\":1,\"result\":{\"content\":[{\"type\":\"text\",\"text\":\"% **Section Content from CR MDT-066**\\n\\n**Section:** ## Description\\n**Content Length:** 567 characters\\n\\n---\\n\\nThe export job uploads each batch once and gives up on the first transport error, so a brief outage of the object store loses the whole nightly export.\\nOperators then rerun the job by hand, which takes about forty minutes and blocks the reporting pipeline until it completes.\\nThe change wraps the upload in a bounded retry with exponential backoff and jitter, records every retry in the job log, and marks the batch as failed only after the final attempt has been rejected by the store.\\nNo schema change is needed and the retry budget is configurable per environment.\\n\\n---\\n\\nUse update_cr_section to modify.\"}]}}",
     value |->
        JDict(<<<<"jsonrpc", JStr("2.0")>>, <<"id", JNum(1)>>, <<"result",
        JDict(<<<<"content", JList(<<JDict(<<<<"type", JStr("text")>>,
        <<"text",
        JStr("% **Section Content from CR MDT-066**\n\n**Section:** ## Description\n**Content Length:** 567 characters\n\n---\n\nThe export job uploads each batch once and gives up on the first transport error, so a brief outage of the object store loses the whole nightly export.\nOperators then rerun the job by hand, which takes about forty minutes and blocks the reporting pipeline until it completes.\nThe change wraps the upload in a bounded retry with exponential backoff and jitter, records every retry in the job log, and marks the batch as failed only after the final attempt has been rejected by the store.\nNo schema change is needed and the retry budget is configurable per environment.\n\n---\n\nUse update_cr_section to modify.")>>>>)>>)>>>>)>>>>)],
     [name |-> "DebugLine", ok |-> FALSE,
     err |-> "Expecting property name enclosed in double quotes: line 1 column 2 (char 1)",
     text |-> "{debug} cache warm",
     value |-> JNull],
     [name |-> "Truncated", ok |-> FALSE,
     err |-> "Expecting value: line 1 column 46 (char 45)",
     text |-> "{\"jsonrpc\":\"2.0\",\"id\":1,\"result\":{\"content\":[",
     value |-> JNull]}

\* The document of a name.
Doc(name) == CHOOSE d \in Documents : d.name = name

\* json.loads(s): the document whose text s is.
json_loads(s) == CHOOSE d \in Documents : d.text = s

(***************************************************************************)
(* MCPClient._call_mcp_tool: from the child's exit to the value            *)
(***************************************************************************)

\* LastJsonLine scanning from the first line on.
LastJsonLineFirst(lines, i) ==
    IF \A j \in 1..i : ~StartsWith(Strip(lines[j]), "{") THEN None
    ELSE Strip(lines[CHOOSE j \in 1..i :
                   /\ StartsWith(Strip(lines[j]), "{")
                   /\ \A k \in 1..(j - 1) : ~StartsWith(Strip(lines[k]), "{")])

\* The scan of reversed(lines): the last line that starts with '{' once
\* stripped, stripped; None when there is none.
RECURSIVE LastJsonLine(_, _)
LastJsonLine(lines, i) ==
    IF i = 0 THEN None
    ELSE IF StartsWith(Strip(lines[i]), "{") THEN Strip(lines[i])
    ELSE LastJsonLine(lines, i - 1)

\* The loop over result["content"]: the texts of the items that are dicts
\* with a "text" key, concatenated; adding a text that is no str raises.
RECURSIVE TextContent(_, _, _)
TextContent(items, i, text_content) ==
    IF i > Len(items) THEN Return(JStr(text_content))
    ELSE IF items[i].t = "dict" /\ HasKey(items[i], "text")
    THEN LET x == Get(items[i], "text")
         IN  IF x.t = "str"
             THEN TextContent(items, i + 1, text_content \o x.s)
             ELSE Raise("TypeError",
                        "can only concatenate str (not \"" \o x.t \o "\") to str")
    ELSE TextContent(items, i + 1, text_content)

\* HandleResponse looking for the result before the error.
HandleResponseResultFirst(response) ==
    IF HasKey(response, "result")
    THEN LET res == Get(response, "result")
         IN  IF /\ res.t = "dict" /\ HasKey(res, "content")
                /\ Get(res, "content").t = "list"
                /\ Len(Get(res, "content").items) > 0
             THEN TextContent(Get(res, "content").items, 1, "")
             ELSE Return(res)
    ELSE IF HasKey(response, "error")
    THEN Raise("MCPClientError", "MCP tool error: " \o PyStr(Get(response, "error")))
    ELSE Raise("MCPClientError", "Invalid MCP response format")

\* What is made of a parsed response.
HandleResponse(response) ==
    IF HasKey(response, "error")
    THEN Raise("MCPClientError", "MCP tool error: " \o PyStr(Get(response, "error")))
    ELSE IF HasKey(response, "result")
    THEN LET res == Get(response, "result")
         IN  IF /\ res.t = "dict" /\ HasKey(res, "content")
                /\ Get(res, "content").t = "list"
                /\ Len(Get(res, "content").items) > 0
             THEN TextContent(Get(res, "content").items, 1, "")
             ELSE Return(res)
    ELSE Raise("MCPClientError", "Invalid MCP response format")

\* AfterCommunicate without the test of the exit status.
AfterCommunicateAnyExit(returncode, stdout, stderr) ==
    LET lines == Split(Strip(stdout), "\n")
        json_line == LastJsonLine(lines, Len(lines))
    IN  IF json_line = None
        THEN Raise("MCPClientError",
                   "No JSON response found in MCP server output")
        ELSE IF ~json_loads(json_line).ok
        THEN Raise("MCPClientError",
                   "Invalid JSON response from MCP server: "
                       \o json_loads(json_line).err)
        ELSE HandleResponse(json_loads(json_line).value)

\* The body of the try block once communicate has returned.
AfterCommunicate(returncode, stdout, stderr) ==
    IF returncode # 0
    THEN Raise("MCPClientError",
               "MCP server error: "
                   \o (IF stderr # "" THEN Strip(stderr) ELSE "Unknown error"))
    ELSE LET lines == Split(Strip(stdout), "\n")
             json_line == LastJsonLine(lines, Len(lines))
         IN  IF json_line = None
             THEN Raise("MCPClientError",
                        "No JSON response found in MCP server output")
             ELSE IF ~json_loads(json_line).ok
             THEN Raise("MCPClientError",
                        "Invalid JSON response from MCP server: "
                            \o json_loads(json_line).err)
             ELSE HandleResponse(json_loads(json_line).value)

\* except Exception: whatever the try block raised leaves as an
\* MCPClientError that quotes it.
ExceptException(e) ==
    Raise("MCPClientError", "Unexpected error calling MCP server: " \o e.msg)

(***************************************************************************)
(* MCPClient._extract_section_content and _parse_cr_response               *)
(***************************************************************************)

\* SectionLoop going on past the second '---'.
RECURSIVE SectionLoopPastSecond(_, _, _, _)
SectionLoopPastSecond(lines, i, capture, content_lines) ==
    IF i > Len(lines) THEN content_lines
    ELSE IF Strip(lines[i]) = "---"
    THEN SectionLoopPastSecond(lines, i + 1, TRUE, content_lines)
    ELSE IF /\ capture
            /\ Strip(lines[i]) # ""
            /\ ~StartsWith(lines[i], BOOK_ICON)
            /\ ~StartsWith(lines[i], "**Section:")
            /\ ~StartsWith(lines[i], "**Content Length:")
    THEN SectionLoopPastSecond(lines, i + 1, capture, Append(content_lines, lines[i]))
    ELSE SectionLoopPastSecond(lines, i + 1, capture, content_lines)

\* The loop over the lines: capture is whether the first '---' was seen.
RECURSIVE SectionLoop(_, _, _, _)
SectionLoop(lines, i, capture, content_lines) ==
    IF i > Len(lines) THEN content_lines
    ELSE IF Strip(lines[i]) = "---"
    THEN IF capture THEN content_lines
         ELSE SectionLoop(lines, i + 1, TRUE, content_lines)
    ELSE IF /\ capture
            /\ Strip(lines[i]) # ""
            /\ ~StartsWith(lines[i], BOOK_ICON)
            /\ ~StartsWith(lines[i], "**Section:")
            /\ ~StartsWith(lines[i], "**Content Length:")
    THEN SectionLoop(lines, i + 1, capture, Append(content_lines, lines[i]))
    ELSE SectionLoop(lines, i + 1, capture, content_lines)

_extract_section_content(c) ==
    Strip(JoinLines(SectionLoop(Split(c, "\n"), 1, FALSE, <<>>)))

\* s.rstrip('*')
RECURSIVE RStripStars(_)
RStripStars(s) ==
    IF EndsWith(s, "*") THEN RStripStars(SubSeq(s, 1, Len(s) - 1)) ELSE s

\* s.split(sep, 1)[1], for s that holds sep.
AfterFirst(s, sep) == SubSeq(s, Find(s, sep, 1) + Len(sep), Len(s))

\* One line of the response applied to attrs.
ParseLine(a, line) ==
    IF StartsWith(line, DOC_ICON \o " **") /\ Contains(line, " - ")
    THEN [a EXCEPT !.title = Strip(RStripStars(AfterFirst(line, " - ")))]
    ELSE IF StartsWith(line, "- Status:")
    THEN [a EXCEPT !.status = Strip(Remove(line, "- Status:"))]
    ELSE IF StartsWith(line, "- Type:")
    THEN [a EXCEPT !.type = Strip(Remove(line, "- Type:"))]
    ELSE IF StartsWith(line, "- Priority:")
    THEN [a EXCEPT !.priority = Strip(Remove(line, "- Priority:"))]
    ELSE a

RECURSIVE ParseLoop(_, _, _)
ParseLoop(a, lines, i) ==
    IF i > Len(lines) THEN a
    ELSE ParseLoop(ParseLine(a, Strip(lines[i])), lines, i + 1)

_parse_cr_response(response_text, k) ==
    ParseLoop([key |-> k, title |-> "No Title", type |-> "Unknown",
               priority |-> "Medium", status |-> "Unknown"],
              Split(response_text, "\n"), 1)

(***************************************************************************)
(* The MCP server as a child process                                       *)
(***************************************************************************)

\* self.server_path
ServerPath == "/opt/markdown-ticket/mcp-server/dist/index.js"

\* json.dumps(v), for strings without quotes or escapes.
RECURSIVE json_dumps(_)
json_dumps(v) ==
    CASE v.t = "str" -> "\"" \o v.s \o "\""
      [] v.t = "int" -> IntStr(v.n)
      [] v.t = "NoneType" -> "null"
      [] v.t = "list" ->
            "[" \o JoinComma([i \in 1..Len(v.items) |-> json_dumps(v.items[i])]) \o "]"
      [] OTHER ->
            "{" \o JoinComma([i \in 1..Len(v.items) |->
                    "\"" \o v.items[i][1] \o "\": " \o json_dumps(v.items[i][2])]) \o "}"

\* The JSON-RPC request of a tool call.
RpcRequest(name, arguments) ==
    JDict(<<<<"jsonrpc", JStr("2.0")>>, <<"id", JNum(1)>>,
            <<"method", JStr("tools/call")>>,
            <<"params", JDict(<<<<"name", JStr(name)>>,
                                <<"arguments", arguments>>>>)>>>>)

\* The arguments of get_cr and of get_cr_section.
CrParams(p, k) == JDict(<<<<"project", JStr(p)>>, <<"key", JStr(k)>>>>)
SectionParams(p, k, s) ==
    JDict(<<<<"project", JStr(p)>>, <<"key", JStr(k)>>, <<"section", JStr(s)>>>>)

\* The sections asked for in the other order.
SectionNamesRationaleFirst == <<"## Rationale", "## Description">>

\* The sections get_ticket asks for, in order.
SectionNames == <<"## Description", "## Rationale">>

\* What Popen does: it starts the child, or node is not found, or another
\* error of the operating system stops it.
SpawnOutcomes == {"ok", "FileNotFoundError", "PermissionError"}

\* What the child does once started.
Exit(rc, out, err) ==
    [kind |-> "exit", returncode |-> rc, stdout |-> out, stderr |-> err,
     state |-> "reaped"]
\* communicate raises: the timeout expired, the child's output could not be
\* decoded, or the user interrupted; the child runs on or has ended. Or
\* Popen raised and there is no child: the state is "none".
Failure(kind, st) ==
    [kind |-> kind, returncode |-> 0, stdout |-> "", stderr |-> "", state |-> st]
NoBehaviour ==
    [kind |-> "none", returncode |-> 0, stdout |-> "", stderr |-> "",
     state |-> "none"]

MaxStdoutLines == 3

LogLine == "[info] MCP server ready"

\* The lines of a longer output.
LineVocabulary ==
    {LogLine, "", Doc("DebugLine").text, Doc("TwoTexts").text,
     "  " \o Doc("PlainResult").text \o " ", Doc("ToolErr").text}

\* Outputs of up to MaxStdoutLines lines, and every document on its own.
Stdouts ==
    {JoinLines(ls) \o "\n" :
        ls \in UNION {[1..n -> LineVocabulary] : n \in 1..MaxStdoutLines}}
    \cup {d.text \o "\n" : d \in Documents}
    \cup {""}

\* Every behaviour of the child, for one call looked at on its own.
CallBehaviours ==
    {Exit(0, out, "") : out \in Stdouts}
    \cup {Exit(rc, out, err) :
            rc \in {1, 137},
            out \in {"", Doc("TwoTexts").text \o "\n"},
            err \in {"", " \n", "Error: Cannot find module\n"}}
    \cup {Failure("TimeoutExpired", "running")}
    \cup {Failure(k, st) :
            k \in {"UnicodeDecodeError", "KeyboardInterrupt"},
            st \in {"running", "zombie"}}

\* The behaviours get_ticket meets on its get_cr call.
CrBehaviours ==
    {Exit(0, LogLine \o "\n" \o Doc(n).text \o "\n", "") :
        n \in {"AttrsFull", "AttrsBare", "EmptyText", "NoTextItems", "EmptyList",
               "NullResult", "ToolErr"}}
    \cup {Exit(0, LogLine \o "\n", ""), Exit(1, "", "Error: Cannot find module\n"),
          Failure("TimeoutExpired", "running")}

\* The behaviours get_ticket meets on a get_cr_section call.
SectionBehaviours ==
    {Exit(0, Doc(n).text \o "\n", "") :
        n \in {"SectionDescription", "SectionRationale", "SectionBlank",
               "EmptyText", "EmptyList", "ToolErr", "DebugLine"}}
    \cup {Exit(1, "", ""), Failure("TimeoutExpired", "running")}

\* The behaviours a run of main meets on its get_cr call and on its
\* get_cr_section calls.
MainCrBehaviours ==
    {Exit(0, LogLine \o "\n" \o Doc(n).text \o "\n", "") :
        n \in {"AttrsFull", "EmptyText"}}
    \cup {Exit(1, "", "Error: Cannot find module\n")}

MainSectionBehaviours ==
    {Exit(0, Doc(n).text \o "\n", "") :
        n \in {"SectionLong", "SectionRationale", "ToolErr"}}

\* get_ticket's arguments.
TicketRefs == {<<"MDT", "MDT-066">>, <<"API", "API-7">>}

\* A TicketData; None stands for an absent description or rationale.
TicketData(k, ti, ty, pr, st, d, r) ==
    [key |-> k, title |-> ti, type |-> ty, priority |-> pr, status |-> st,
     description |-> d, rationale |-> r]

NoTicket == TicketData(None, None, None, None, None, None, None)

NoAttrs == [key |-> None, title |-> None, type |-> None, priority |-> None,
            status |-> None]

NoSections == [description |-> None, rationale |-> None]

\* What get_ticket ended with: nothing yet, a TicketData, None, or an
\* exception.
NotReturned == [kind |-> "none", data |-> NoTicket, type |-> "", msg |-> ""]
ReturnTicket(d) == [kind |-> "TicketData", data |-> d, type |-> "", msg |-> ""]
ReturnNone == [kind |-> "None", data |-> NoTicket, type |-> "", msg |-> ""]
RaiseTicket(type, msg) == [kind |-> "raise", data |-> NoTicket, type |-> type, msg |-> msg]

(***************************************************************************)
(* TicketNormalizer.normalize                                              *)
(***************************************************************************)

\* U+0666, a decimal digit outside ASCII.
ARABIC_SIX == "~"

UpperLetters ==
    {"A", "B", "C", "D", "E", "F", "G", "H", "I", "J", "K", "L", "M", "N", "O",
     "P", "Q", "R", "S", "T", "U", "V", "W", "X", "Y", "Z"}

AsciiDigits == {"0", "1", "2", "3", "4", "5", "6", "7", "8", "9"}

\* What \d matches in a str pattern: every Unicode decimal digit.
DecimalDigits == AsciiDigits \cup {ARABIC_SIX}

\* c.upper() of one character, for the characters the inputs use.
UpperChar(c) ==
    IF \E u \in UpperLetters : LowerChar(u) = c
    THEN CHOOSE u \in UpperLetters : LowerChar(u) = c
    ELSE c

\* s.upper()
RECURSIVE Upper(_)
Upper(s) ==
    IF Len(s) = 0 THEN ""
    ELSE IF Len(s) = 1 THEN UpperChar(s)
    ELSE LET h == Len(s) \div 2
         IN  Upper(SubSeq(s, 1, h)) \o Upper(SubSeq(s, h + 1, Len(s)))

\* Every character of s is one of chars.
AllIn(s, chars) == \A i \in 1..Len(s) : Char(s, i) \in chars

\* number.zfill(3)
NumberWidth == 3

\* zfill cutting a longer string down to the width.
zfill_cutting(s, width) ==
    IF Len(s) >= width THEN SubSeq(s, Len(s) - width + 1, Len(s))
    ELSE Rep("0", width - Len(s)) \o s

\* zfill padding every string, long or short.
zfill_always(s, width) == "0" \o s

\* s.zfill(width), for s without a sign.
zfill(s, width) == Rep("0", width - Len(s)) \o s

\* normalize returned None.
NoMatch == <<>>

\* Match as a pattern that lets digits into the project.
MatchAnyProject(s) ==
    LET h == Find(s, "-", 1)
        letters == SubSeq(s, 1, h - 1)
        digits == SubSeq(s, h + 1, Len(s))
    IN  IF h > 1 /\ AllIn(letters, UpperLetters \cup AsciiDigits)
           /\ digits # "" /\ AllIn(digits, DecimalDigits)
        THEN <<letters, digits>>
        ELSE NoMatch

\* re.match(r'^([A-Z]+)-(\d+)$', s): the two groups, or NoMatch. The letters
\* hold no '-', so the first group ends before the first '-'.
Match(s) ==
    LET h == Find(s, "-", 1)
        letters == SubSeq(s, 1, h - 1)
        digits == SubSeq(s, h + 1, Len(s))
    IN  IF /\ h > 1
           /\ AllIn(letters, UpperLetters)
           /\ digits # ""
           /\ AllIn(digits, DecimalDigits)
        THEN <<letters, digits>>
        ELSE NoMatch

\* TicketNormalizer.normalize(id)
normalize(id) ==
    LET groups == Match(Upper(Strip(id)))
    IN  IF groups = NoMatch THEN NoMatch
        ELSE <<groups[1], zfill(groups[2], NumberWidth)>>

\* full_key = f"{project}-{number}"
full_key(pair) == pair[1] \o "-" \o pair[2]

(***************************************************************************)
(* Config and OutputFormatter                                              *)
(*                                                                         *)
(* An escape sequence of colorama is written as its name between angle     *)
(* brackets; WARN_ICON and CHECK_ICON stand for the two signs main prints  *)
(* with the configuration issues.                                          *)
(***************************************************************************)

EXIT_SUCCESS == 0
EXIT_INVALID_INPUT == 1
EXIT_MCP_ERROR == 2
EXIT_LLM_ERROR == 3
EXIT_TICKET_NOT_FOUND == 4
EXIT_CONFIG_ERROR == 5
EXIT_GENERAL_ERROR == 6

WARN_ICON == "!"
CHECK_ICON == "+"

Fore(name) == "<" \o name \o ">"

RESET_ALL == "<RESET_ALL>"

_get_priority_color(priority) ==
    IF priority \in {"Critical", "Critical/High", "Highest"} THEN Fore("RED")
    ELSE IF priority = "High" THEN Fore("LIGHTRED_EX")
    ELSE IF priority \in {"Low", "Lowest"} THEN Fore("LIGHTYELLOW_EX")
    ELSE Fore("YELLOW")

_get_status_color(status) ==
    IF status \in {"Rejected", "Blocked"} THEN Fore("RED")
    ELSE IF status = "Proposed" THEN Fore("LIGHTBLUE_EX")
    ELSE IF status \in {"Approved", "Ready"} THEN Fore("GREEN")
    ELSE IF status \in {"Implemented", "Done"} THEN Fore("LIGHTGREEN_EX")
    ELSE IF status = "On Hold" THEN Fore("MAGENTA")
    ELSE IF status = "Closed" THEN Fore("LIGHTBLACK_EX")
    ELSE IF status = "Review" THEN Fore("YELLOW")
    ELSE Fore("BLUE")

_format_header(ticket_data) ==
    "[ " \o Fore("CYAN") \o ticket_data.key \o RESET_ALL \o " | "
         \o Fore("GREEN") \o ticket_data.type \o RESET_ALL \o " | "
         \o _get_priority_color(ticket_data.priority) \o ticket_data.priority
         \o RESET_ALL \o " | "
         \o _get_status_color(ticket_data.status) \o ticket_data.status
         \o RESET_ALL \o " ]"

format_basic_ticket_display(ticket_data) ==
    _format_header(ticket_data) \o "\n"
        \o "<BRIGHT>" \o Fore("WHITE") \o ticket_data.title \o RESET_ALL

format_summary_section(summary_text) ==
    "\n" \o Fore("LIGHTWHITE_EX") \o summary_text \o RESET_ALL

format_error(message) == Fore("RED") \o message \o RESET_ALL

format_warning(message) == Fore("YELLOW") \o message \o RESET_ALL

format_info(message) == Fore("BLUE") \o message \o RESET_ALL

\* TicketNormalizer.format_error(ticket_id)
format_ticket_error(id) ==
    "Invalid ticket format: '" \o id
        \o "'. Expected format: PROJECT-NUMBER (e.g., MDT-066)"

\* What Config.validate_config may return with the default settings: the
\* server file is there and allowed, or missing, or of the wrong kind.
ConfigIssues ==
    {<<>>,
     <<"MCP server not found at: " \o ServerPath>>,
     <<"MCP server path validation failed: " \o ServerPath
           \o " (must be .js/.mjs file in allowed directory)">>}

\* [issue for issue in config_issues if "not found" in issue.lower()]
critical_issues(issues) ==
    SelectSeq(issues, LAMBDA issue : Contains(Lower(issue), "not found"))

\* The lines Config.print_config_info prints with the default settings and
\* n retries.
print_config_info(n) ==
    <<"MDT CLI Configuration:",
      "  MCP Server: " \o ServerPath,
      "  Ollama URL: http://localhost:11434/v1",
      "  Model: gemma3:270m",
      "  Timeout: 30s",
      "  Max Retries: " \o IntStr(n),
      "  Debug Mode: False">>

\* The lines main prints for the issues, each behind the warning sign.
IssueLines(issues) ==
    [i \in 1..Len(issues) |-> "  " \o WARN_ICON \o "  " \o issues[i]]

(***************************************************************************)
(* State                                                                   *)
(***************************************************************************)

VARIABLES
    description,     \* generate_summary's arguments
    rationale,
    max_retries,     \* the configured MDT_MAX_RETRIES
    pc,              \* "start", "single", "ladder", "done"; "idle" when unused
    content,         \* the combined content
    attempt,         \* the loop variable of _generate_summary_with_attempts
    calls,           \* the requests sent to the backend, in order
    outcomes,        \* what the backend did with each
    fallback_calls,  \* the arguments _fallback_summary was called with
    result,          \* what generate_summary returned
    raised,          \* whether an exception left generate_summary
    summary,         \* _is_valid_summary's argument
    verdict,         \* what it returned: "True" or "False"
    text,            \* _fallback_summary's argument, applied on its own
    fb_summary,
    project,         \* get_ticket's arguments
    key,
    ticket_pc,       \* "start", "get_cr", "sections", "done"; "idle" when unused
    section_index,   \* the position of the loop over the section names
    attrs,           \* what _parse_cr_response returned
    sections,        \* the dict _get_ticket_sections fills
    warnings,        \* the warnings printed
    ticket,          \* what get_ticket ended with
    tool_name,       \* _call_mcp_tool's arguments
    params,
    call_pc,         \* the position in _call_mcp_tool; "idle" when unused
    process,         \* the local variable: 0 for None, else the child's number
    children,        \* every child spawned: its state and what its stdin got
    behaviour,       \* what the child of this call did
    pending,         \* what the call is about to return or raise
    trace,           \* the steps taken on child processes, in order
    call_log,        \* the calls that ended, in order
    response_text,   \* the argument of the two parsers of mcp_client
    extracted_content,  \* what _extract_section_content returned
    ticket_id,       \* main's arguments
    verbose,
    debug,
    config_info,
    config_issues,   \* what Config.validate_config finds
    normalized,      \* what TicketNormalizer.normalize returned
    main_pc,         \* the position in main; "idle" when unused
    printed,         \* the lines main printed
    exit_code        \* the exit status of the run

vars ==
    <<description, rationale, max_retries, pc, content, attempt, calls, outcomes,
      fallback_calls, result, raised, summary, verdict, text, fb_summary,
      project, key, ticket_pc, section_index, attrs, sections, warnings, ticket,
      tool_name, params, call_pc, process, children, behaviour, pending, trace,
      call_log, response_text, extracted_content, ticket_id, verbose, debug,
      config_info, config_issues, normalized, main_pc, printed, exit_code>>

llm_vars ==
    <<description, rationale, max_retries, pc, content, attempt, calls, outcomes,
      fallback_calls, result, raised>>

valid_vars == <<summary, verdict>>

fb_vars == <<text, fb_summary>>

LlmIdle ==
    /\ description = None /\ rationale = None /\ max_retries = 0
    /\ pc = "idle" /\ content = None /\ attempt = 0
    /\ calls = <<>> /\ outcomes = <<>> /\ fallback_calls = <<>>
    /\ result = None /\ raised = FALSE

ValidIdle == summary = None /\ verdict = None

FbIdle == text = None /\ fb_summary = None

mcp_vars ==
    <<project, key, ticket_pc, section_index, attrs, sections, warnings, ticket,
      tool_name, params, call_pc, process, children, behaviour, pending, trace,
      call_log>>

McpIdle ==
    /\ project = None /\ key = None /\ ticket_pc = "idle" /\ section_index = 0
    /\ attrs = NoAttrs /\ sections = NoSections /\ warnings = <<>>
    /\ ticket = NotReturned
    /\ tool_name = None /\ params = JNull /\ call_pc = "idle" /\ process = 0
    /\ children = <<>> /\ behaviour = NoBehaviour /\ pending = Return(JNull)
    /\ trace = <<>> /\ call_log = <<>>

cli_vars ==
    <<response_text, extracted_content, ticket_id, verbose, debug, config_info,
      config_issues, normalized, main_pc, printed, exit_code>>

CliIdle ==
    /\ response_text = None /\ extracted_content = None
    /\ ticket_id = None /\ verbose = FALSE /\ debug = FALSE
    /\ config_info = FALSE /\ config_issues = <<>>
    /\ normalized = NoMatch /\ main_pc = "idle" /\ printed = <<>>
    /\ exit_code = None

(***************************************************************************)
(* LLMProcessor.generate_summary                                           *)
(***************************************************************************)

Init ==
    /\ \E in \in Inputs : description = in[1] /\ rationale = in[2]
    /\ max_retries \in MaxRetriesValues
    /\ pc = "start"
    /\ content = None
    /\ attempt = 0
    /\ calls = <<>>
    /\ outcomes = <<>>
    /\ fallback_calls = <<>>
    /\ result = None
    /\ raised = FALSE
    /\ ValidIdle
    /\ FbIdle
    /\ McpIdle
    /\ CliIdle

\* CombinedContent labelling both parts whether or not they are empty.
CombinedContentLabelled(d, r) ==
    "Description: " \o d \o "\n\nRationale: " \o r

\* The content generate_summary combines; None when it returns the sentinel.
CombinedContent(d, r) ==
    IF d # "" /\ r # "" THEN "Description: " \o d \o "\n\nRationale: " \o r
    ELSE IF d # "" THEN d
    ELSE IF r # "" THEN r
    ELSE None

\* UsesLadder with the comparison off by one.
UsesLadderInclusive(c) == Len(c) >= LongContentThreshold

UsesLadder(c) == Len(c) > LongContentThreshold

\* The request _attempt_summary sends for one attempt.
Request(c, n) ==
    LET attempt_params == _get_attempt_params(c, n)
    IN  [attempt |-> n,
         system_prompt |-> _get_system_prompt,
         user_content |-> attempt_params.user_content,
         temp |-> attempt_params.temp,
         max_tokens |-> attempt_params.max_tokens]

\* str(lm['output']).strip()
Returned(o) == Strip(o.output)

generate_summary ==
    /\ pc = "start"
    /\ LET c == CombinedContent(description, rationale)
       IN  IF c = None
           THEN /\ result' = NoContentSummary
                /\ pc' = "done"
                /\ UNCHANGED <<content, attempt>>
           ELSE /\ content' = c
                /\ IF UsesLadder(c)
                   THEN pc' = "ladder" /\ attempt' = 1
                   ELSE pc' = "single" /\ attempt' = attempt
                /\ result' = result
    /\ UNCHANGED <<description, rationale, max_retries, calls, outcomes,
                   fallback_calls, raised, summary, verdict, text, fb_summary>>
    /\ UNCHANGED mcp_vars
    /\ UNCHANGED cli_vars

\* What _single_summary_attempt returns when the backend does o: the output
\* if it is truthy, the fallback if it is empty or the call raised.
SingleUsesFallback(o) == o.raised \/ Returned(o) = ""

_single_summary_attempt ==
    /\ pc = "single"
    /\ \E o \in BackendOutcomes :
        /\ calls' = Append(calls, Request(content, 1))
        /\ outcomes' = Append(outcomes, o)
        /\ IF SingleUsesFallback(o)
           THEN /\ fallback_calls' = Append(fallback_calls, content)
                /\ result' = _fallback_summary(content)
           ELSE /\ fallback_calls' = fallback_calls
                /\ result' = Returned(o)
    /\ pc' = "done"
    /\ UNCHANGED <<description, rationale, max_retries, content, attempt, raised,
                   summary, verdict, text, fb_summary>>
    /\ UNCHANGED mcp_vars
    /\ UNCHANGED cli_vars

\* Accepted taking any candidate that is not empty.
AcceptedUnvalidated(o) == ~o.raised /\ Returned(o) # ""

\* `if result and self._is_valid_summary(result): return result`
Accepted(o) == ~o.raised /\ Returned(o) # "" /\ _is_valid_summary(Returned(o))

\* AfterFailure with the configured retry count as the length of the ladder.
AfterFailureConfigured(n, o) ==
    IF o.raised /\ n = max_retries THEN "fallback"
    ELSE IF n < max_retries THEN "retry"
    ELSE "fallback"

\* AfterFailure with the except branch returning the fallback on any attempt.
AfterFailureEager(n, o) ==
    IF o.raised THEN "fallback"
    ELSE IF n < LastAttempt THEN "retry"
    ELSE "fallback"

\* After an attempt that was not accepted: the except branch returns the
\* fallback on attempt 3, the loop goes on while attempts remain, and the
\* statement after the loop returns the fallback.
AfterFailure(n, o) ==
    IF o.raised /\ n = 3 THEN "fallback"
    ELSE IF n < LastAttempt THEN "retry"
    ELSE "fallback"

\* One iteration of the loop of _generate_summary_with_attempts.
_generate_summary_with_attempts ==
    /\ pc = "ladder"
    /\ \E o \in BackendOutcomes :
        /\ calls' = Append(calls, Request(content, attempt))
        /\ outcomes' = Append(outcomes, o)
        /\ IF Accepted(o)
           THEN /\ result' = Returned(o)
                /\ pc' = "done"
                /\ UNCHANGED <<attempt, fallback_calls>>
           ELSE IF AfterFailure(attempt, o) = "retry"
           THEN /\ attempt' = attempt + 1
                /\ UNCHANGED <<pc, result, fallback_calls>>
           ELSE /\ fallback_calls' = Append(fallback_calls, content)
                /\ result' = _fallback_summary(content)
                /\ pc' = "done"
                /\ attempt' = attempt
    /\ UNCHANGED <<description, rationale, max_retries, content, raised,
                   summary, verdict, text, fb_summary>>
    /\ UNCHANGED mcp_vars
    /\ UNCHANGED cli_vars

Next ==
    \/ generate_summary
    \/ _single_summary_attempt
    \/ _generate_summary_with_attempts

Spec == Init /\ [][Next]_vars

(***************************************************************************)
(* LLMProcessor._is_valid_summary applied on its own                       *)
(***************************************************************************)

\* Candidate summaries: every word count up to MaxWords + MaxExtraWords, in
\* each of the shapes the heuristics look at.
Shapes ==
    {"plain", "padded", "heading", "hash", "dash", "hyphen", "bullet", "star",
     "two_lines", "three_lines", "blank_lines"}

Shaped(shape, w) ==
    CASE shape = "plain" -> w
      [] shape = "padded" -> " " \o w \o "\n"
      [] shape = "heading" -> "## " \o w
      [] shape = "hash" -> w \o " #1"
      [] shape = "dash" -> "- " \o w
      [] shape = "hyphen" -> w \o " well-known"
      [] shape = "bullet" -> BULLET \o " " \o w
      [] shape = "star" -> "* " \o w
      [] shape = "two_lines" -> w \o "\nsecond line"
      [] shape = "three_lines" -> w \o "\nsecond\nthird"
      [] shape = "blank_lines" -> w \o "\n\n \nlast"

\* Five words, n characters.
Wide(n) == Solid(n - 8) \o " a b c d"

Candidates ==
    {Shaped(shape, Words(k)) : shape \in Shapes, k \in 0..(MaxWords + MaxExtraWords)}
    \cup {Wide(n) : n \in (MaxSummaryChars - 1)..(MaxSummaryChars + MaxOver)}

InitValid ==
    /\ summary \in Candidates
    /\ verdict = None
    /\ LlmIdle
    /\ FbIdle
    /\ McpIdle
    /\ CliIdle

Validate ==
    /\ summary # None
    /\ verdict = None
    /\ verdict' = IF _is_valid_summary(summary) THEN "True" ELSE "False"
    /\ UNCHANGED <<summary, text, fb_summary>>
    /\ UNCHANGED llm_vars
    /\ UNCHANGED mcp_vars
    /\ UNCHANGED cli_vars

NextValid == Validate

SpecValid == InitValid /\ [][NextValid]_vars

(***************************************************************************)
(* LLMProcessor._fallback_summary applied on its own                       *)
(***************************************************************************)

FallbackLines ==
    {"",
     "- item one",
     "- Replace the polling loop with a websocket subscription. It removes the idle load on the server",
     "* Cache the rendered ticket list between refreshes",
     BULLET \o " Review the retry budget",
     "## Problem Statement",
     "The scheduler drops queued jobs when the worker pool is saturated",
     "Short line here",
     Solid(LongCut + 1),
     Spaced(ShortCut + 10)}

\* The most '. '-separated sentences of a bullet line.
MaxSentences == 4

\* The most lines of a text of content lines.
MaxContentLines == 4

\* '. '.join(xs)
RECURSIVE JoinSentences(_)
JoinSentences(xs) ==
    IF Len(xs) = 0 THEN ""
    ELSE IF Len(xs) = 1 THEN xs[1]
    ELSE xs[1] \o ". " \o JoinSentences(Tail(xs))

\* Every text of 1..MaxTextLines lines, every bullet line of
\* 1..MaxSentences sentences, and every text of 1..MaxContentLines content
\* lines, one of them a section header and one of them too short once its
\* emphasis markers are removed.
FallbackTexts ==
    LET sentences ==
            {"Users must restart the worker by hand",
             "Each project has its own retry queue",
             "Managing multiple projects doubles the toil",
             "Queue retries drain automatically now"}
        content_lines ==
            {"## Problem Statement",
             "The scheduler drops queued jobs when the worker pool is saturated",
             "Retries keep the queue draining under load",
             "Workers *retry* the **failed** jobs"}
    IN  {JoinLines(ls) : ls \in UNION {[1..n -> FallbackLines] : n \in 1..MaxTextLines}}
        \cup {"- " \o JoinSentences(ss) :
                  ss \in UNION {[1..n -> sentences] : n \in 1..MaxSentences}}
        \cup {JoinLines(ls) :
                  ls \in UNION {[1..n -> content_lines] : n \in 1..MaxContentLines}}

InitFallback ==
    /\ text \in FallbackTexts
    /\ fb_summary = None
    /\ LlmIdle
    /\ ValidIdle
    /\ McpIdle
    /\ CliIdle

Fallback ==
    /\ text # None
    /\ fb_summary = None
    /\ fb_summary' = _fallback_summary(text)
    /\ UNCHANGED <<text, summary, verdict>>
    /\ UNCHANGED llm_vars
    /\ UNCHANGED mcp_vars
    /\ UNCHANGED cli_vars

NextFallback == Fallback

SpecFallback == InitFallback /\ [][NextFallback]_vars

(***************************************************************************)
(* MCPClient._call_mcp_tool                                                *)
(***************************************************************************)

Event(op) == [call |-> Len(call_log) + 1, op |-> op]

\* The behaviours the child is given: every one when a call is looked at
\* on its own, those of the tool when get_ticket makes the call, fewer of
\* them when main made the call of get_ticket.
Behaviours ==
    IF ticket_pc = "idle" THEN CallBehaviours
    ELSE IF main_pc = "fetch"
    THEN IF tool_name = "get_cr" THEN MainCrBehaviours ELSE MainSectionBehaviours
    ELSE IF tool_name = "get_cr" THEN CrBehaviours
    ELSE SectionBehaviours

\* _call_mcp_tool is entered.
BeginCall(name, p) ==
    /\ tool_name' = name
    /\ params' = p
    /\ call_pc' = "Popen"
    /\ process' = 0
    /\ behaviour' = NoBehaviour
    /\ pending' = Return(JNull)
    /\ UNCHANGED <<children, trace, call_log>>

\* _call_mcp_tool is left with what is pending, after the listed steps.
EndCall(ops) ==
    /\ call_pc' = "done"
    /\ call_log' = Append(call_log,
            [tool_name |-> tool_name, params |-> params, process |-> process,
             behaviour |-> behaviour, outcome |-> pending])
    /\ trace' = trace \o [i \in 1..Len(ops) |-> Event(ops[i])]
                      \o <<Event(pending.kind)>>

\* Popen with the missing executable taken by the handler of Exception.
PopenNotFoundWrapped ==
    /\ call_pc = "Popen"
    /\ \E o \in SpawnOutcomes :
        IF o = "ok"
        THEN /\ children' = Append(children, [state |-> "running", stdin |-> ""])
             /\ process' = Len(children) + 1
             /\ call_pc' = "communicate"
             /\ UNCHANGED <<pending, behaviour>>
        ELSE /\ pending' =
                    ExceptException(
                        Raise(o, IF o = "FileNotFoundError"
                                 THEN "[Errno 2] No such file or directory: 'node'"
                                 ELSE "[Errno 13] Permission denied: 'node'"))
             /\ behaviour' = Failure(o, "none")
             /\ call_pc' = "finally"
             /\ UNCHANGED <<children, process>>
    /\ trace' = Append(trace, Event("Popen"))
    /\ UNCHANGED <<tool_name, params, call_log>>
    /\ UNCHANGED <<project, key, ticket_pc, section_index, attrs, sections,
                   warnings, ticket>>
    /\ UNCHANGED llm_vars
    /\ UNCHANGED <<summary, verdict, text, fb_summary>>
    /\ UNCHANGED cli_vars

\* subprocess.Popen(["node", self.server_path], ...)
Popen ==
    /\ call_pc = "Popen"
    /\ \E o \in SpawnOutcomes :
        IF o = "ok"
        THEN /\ children' = Append(children, [state |-> "running", stdin |-> ""])
             /\ process' = Len(children) + 1
             /\ call_pc' = "communicate"
             /\ UNCHANGED <<pending, behaviour>>
        ELSE /\ pending' =
                    IF o = "FileNotFoundError"
                    THEN Raise("MCPClientError",
                               "MCP server not found at " \o ServerPath)
                    ELSE ExceptException(
                             Raise(o, "[Errno 13] Permission denied: 'node'"))
             /\ behaviour' = Failure(o, "none")
             /\ call_pc' = "finally"
             /\ UNCHANGED <<children, process>>
    /\ trace' = Append(trace, Event("Popen"))
    /\ UNCHANGED <<tool_name, params, call_log>>
    /\ UNCHANGED <<project, key, ticket_pc, section_index, attrs, sections,
                   warnings, ticket>>
    /\ UNCHANGED llm_vars
    /\ UNCHANGED <<summary, verdict, text, fb_summary>>
    /\ UNCHANGED cli_vars

\* StdinAfter writing the request twice.
StdinAfterTwice(stdin, name, arguments) ==
    stdin \o json_dumps(RpcRequest(name, arguments)) \o "\n"
          \o json_dumps(RpcRequest(name, arguments)) \o "\n"

\* What the child's stdin holds once communicate has written the request.
StdinAfter(stdin, name, arguments) ==
    stdin \o json_dumps(RpcRequest(name, arguments)) \o "\n"

\* OnTimeout without the kill.
OnTimeoutNoKill ==
    /\ pending' = Raise("MCPClientError", "MCP server timeout")
    /\ call_pc' = "except_wait"

\* except subprocess.TimeoutExpired: kill, wait, then raise.
OnTimeout ==
    /\ pending' = Raise("MCPClientError", "MCP server timeout")
    /\ call_pc' = "except_kill"

\* process.communicate(input=json.dumps(request) + "\n", timeout=...), and
\* the rest of the try block when it returns.
communicate ==
    /\ call_pc = "communicate"
    /\ \E b \in Behaviours :
        /\ behaviour' = b
        /\ children' = [children EXCEPT ![process] =
                [state |-> b.state,
                 stdin |-> StdinAfter(@.stdin, tool_name, params)]]
        /\ IF b.kind = "exit"
           THEN LET o == AfterCommunicate(b.returncode, b.stdout, b.stderr)
                IN  IF o.kind = "return"
                    THEN pending' = o /\ call_pc' = "finally"
                    ELSE pending' = ExceptException(o) /\ call_pc' = "except_kill"
           ELSE IF b.kind = "TimeoutExpired"
           THEN OnTimeout
           ELSE IF b.kind = "UnicodeDecodeError"
           THEN /\ pending' = ExceptException(Raise(b.kind,
                    "'utf-8' codec can't decode byte 0xff in position 0: invalid start byte"))
                /\ call_pc' = "except_kill"
           ELSE /\ pending' = Raise("KeyboardInterrupt", "")
                /\ call_pc' = "finally"
    /\ trace' = Append(trace, Event("communicate"))
    /\ UNCHANGED <<tool_name, params, process, call_log>>
    /\ UNCHANGED <<project, key, ticket_pc, section_index, attrs, sections,
                   warnings, ticket>>
    /\ UNCHANGED llm_vars
    /\ UNCHANGED <<summary, verdict, text, fb_summary>>
    /\ UNCHANGED cli_vars

\* process.kill(), in a handler or in the finally clause: a running child
\* ends; one that has ended is left as it is.
kill ==
    /\ call_pc \in {"except_kill", "finally_kill"}
    /\ children' = [children EXCEPT ![process].state =
                        IF @ = "running" THEN "zombie" ELSE @]
    /\ call_pc' = IF call_pc = "except_kill" THEN "except_wait" ELSE "finally_wait"
    /\ trace' = Append(trace, Event("kill"))
    /\ UNCHANGED <<tool_name, params, process, behaviour, pending, call_log>>
    /\ UNCHANGED <<project, key, ticket_pc, section_index, attrs, sections,
                   warnings, ticket>>
    /\ UNCHANGED llm_vars
    /\ UNCHANGED <<summary, verdict, text, fb_summary>>
    /\ UNCHANGED cli_vars

\* process.wait() after kill: the child is reaped.  After the handler's
\* wait comes the finally clause; the finally clause's own wait is its end.
wait ==
    /\ call_pc \in {"except_wait", "finally_wait"}
    /\ children' = [children EXCEPT ![process].state = "reaped"]
    /\ IF call_pc = "except_wait"
       THEN /\ call_pc' = "finally"
            /\ trace' = Append(trace, Event("wait"))
            /\ UNCHANGED call_log
       ELSE EndCall(<<"wait">>)
    /\ UNCHANGED <<tool_name, params, process, behaviour, pending>>
    /\ UNCHANGED <<project, key, ticket_pc, section_index, attrs, sections,
                   warnings, ticket>>
    /\ UNCHANGED llm_vars
    /\ UNCHANGED <<summary, verdict, text, fb_summary>>
    /\ UNCHANGED cli_vars

\* Finally leaving the child as it is.
FinallyNoKill ==
    /\ call_pc = "finally"
    /\ UNCHANGED children
    /\ EndCall(<<>>)
    /\ UNCHANGED <<tool_name, params, process, behaviour, pending>>
    /\ UNCHANGED <<project, key, ticket_pc, section_index, attrs, sections,
                   warnings, ticket>>
    /\ UNCHANGED llm_vars
    /\ UNCHANGED <<summary, verdict, text, fb_summary>>
    /\ UNCHANGED cli_vars

\* finally: if process and process.poll() is None.  poll() reaps a child
\* that has ended; a child still running is killed and waited for.
Finally ==
    /\ call_pc = "finally"
    /\ IF process # 0 /\ children[process].state = "running"
       THEN /\ call_pc' = "finally_kill"
            /\ trace' = Append(trace, Event("poll"))
            /\ UNCHANGED <<children, call_log>>
       ELSE IF process # 0
       THEN /\ children' = [children EXCEPT ![process].state = "reaped"]
            /\ EndCall(<<"poll">>)
       ELSE /\ UNCHANGED children
            /\ EndCall(<<>>)
    /\ UNCHANGED <<tool_name, params, process, behaviour, pending>>
    /\ UNCHANGED <<project, key, ticket_pc, section_index, attrs, sections,
                   warnings, ticket>>
    /\ UNCHANGED llm_vars
    /\ UNCHANGED <<summary, verdict, text, fb_summary>>
    /\ UNCHANGED cli_vars

InitCall ==
    /\ project = None /\ key = None /\ ticket_pc = "idle" /\ section_index = 0
    /\ attrs = NoAttrs /\ sections = NoSections /\ warnings = <<>>
    /\ ticket = NotReturned
    /\ \E r \in TicketRefs :
        \/ tool_name = "get_cr" /\ params = CrParams(r[1], r[2])
        \/ \E i \in 1..Len(SectionNames) :
            /\ tool_name = "get_cr_section"
            /\ params = SectionParams(r[1], r[2], SectionNames[i])
    /\ call_pc = "Popen"
    /\ process = 0
    /\ children = <<>>
    /\ behaviour = NoBehaviour
    /\ pending = Return(JNull)
    /\ trace = <<>>
    /\ call_log = <<>>
    /\ LlmIdle /\ ValidIdle /\ FbIdle
    /\ CliIdle

NextCall == Popen \/ communicate \/ kill \/ wait \/ Finally

SpecCall == InitCall /\ [][NextCall]_vars

(***************************************************************************)
(* MCPClient.get_ticket and _get_ticket_sections                           *)
(***************************************************************************)

InitTicket ==
    /\ \E r \in TicketRefs : project = r[1] /\ key = r[2]
    /\ ticket_pc = "start"
    /\ section_index = 0
    /\ attrs = NoAttrs
    /\ sections = NoSections
    /\ warnings = <<>>
    /\ ticket = NotReturned
    /\ tool_name = None
    /\ params = JNull
    /\ call_pc = "idle"
    /\ process = 0
    /\ children = <<>>
    /\ behaviour = NoBehaviour
    /\ pending = Return(JNull)
    /\ trace = <<>>
    /\ call_log = <<>>
    /\ LlmIdle /\ ValidIdle /\ FbIdle
    /\ CliIdle

\* What the call that just ended returned or raised.
LastOutcome == call_log[Len(call_log)].outcome

\* x.split('\n') or x.strip() on a value that is no str.
AttributeErrorText(v, attr) ==
    "'" \o (IF v.t = "NoneType" THEN "NoneType" ELSE v.t)
        \o "' object has no attribute '" \o attr \o "'"

\* ReraiseFetchError swallowing the error.
ReraiseFetchErrorAsNone(k, o) == ReturnNone

\* except Exception as e: raise MCPClientError(f"Error fetching ticket ...").
\* A KeyboardInterrupt is no Exception and passes through.
ReraiseFetchError(k, o) ==
    IF o.type = "KeyboardInterrupt" THEN RaiseTicket(o.type, o.msg)
    ELSE RaiseTicket("MCPClientError", "Error fetching ticket " \o k \o ": " \o o.msg)

\* get_ticket up to its call of get_cr.
get_ticket ==
    /\ ticket_pc = "start"
    /\ ticket_pc' = "get_cr"
    /\ BeginCall("get_cr", CrParams(project, key))
    /\ UNCHANGED <<project, key, section_index, attrs, sections, warnings, ticket>>
    /\ UNCHANGED llm_vars
    /\ UNCHANGED <<summary, verdict, text, fb_summary>>
    /\ UNCHANGED cli_vars

\* get_ticket once get_cr has ended: the error is raised again, or None is
\* returned, or the attributes are parsed and the first section is asked for.
get_ticket_attrs ==
    /\ ticket_pc = "get_cr"
    /\ call_pc = "done"
    /\ LET o == LastOutcome
       IN  IF o.kind = "raise"
           THEN /\ ticket' = ReraiseFetchError(key, o)
                /\ ticket_pc' = "done"
                /\ call_pc' = "idle"
                /\ UNCHANGED <<attrs, section_index, tool_name, params, process,
                               behaviour, pending, children, trace, call_log>>
           ELSE IF ~Truthy(o.value)
           THEN /\ ticket' = ReturnNone
                /\ ticket_pc' = "done"
                /\ call_pc' = "idle"
                /\ UNCHANGED <<attrs, section_index, tool_name, params, process,
                               behaviour, pending, children, trace, call_log>>
           ELSE IF o.value.t # "str"
           THEN /\ ticket' = ReraiseFetchError(key,
                                 Raise("AttributeError",
                                       AttributeErrorText(o.value, "split")))
                /\ ticket_pc' = "done"
                /\ call_pc' = "idle"
                /\ UNCHANGED <<attrs, section_index, tool_name, params, process,
                               behaviour, pending, children, trace, call_log>>
           ELSE /\ attrs' = _parse_cr_response(o.value.s, key)
                /\ ticket_pc' = "sections"
                /\ section_index' = 1
                /\ BeginCall("get_cr_section",
                             SectionParams(project, key, SectionNames[1]))
                /\ UNCHANGED ticket
    /\ UNCHANGED <<project, key, sections, warnings>>
    /\ UNCHANGED llm_vars
    /\ UNCHANGED <<summary, verdict, text, fb_summary>>
    /\ UNCHANGED cli_vars

\* section_name.replace("## ", "").lower()
SimpleName(section_name) == Lower(Remove(section_name, "## "))

\* SectionsAfter keeping an empty extraction.
SectionsAfterKeepingEmpty(secs, section_name, o) ==
    IF o.kind = "return" /\ Truthy(o.value) /\ o.value.t = "str"
    THEN IF SimpleName(section_name) = "description"
         THEN [secs EXCEPT !.description = _extract_section_content(o.value.s)]
         ELSE [secs EXCEPT !.rationale = _extract_section_content(o.value.s)]
    ELSE secs

\* The sections dict after the call for section_name ended with o.
SectionsAfter(secs, section_name, o) ==
    IF /\ o.kind = "return" /\ Truthy(o.value) /\ o.value.t = "str"
       /\ _extract_section_content(o.value.s) # ""
    THEN IF SimpleName(section_name) = "description"
         THEN [secs EXCEPT !.description = _extract_section_content(o.value.s)]
         ELSE [secs EXCEPT !.rationale = _extract_section_content(o.value.s)]
    ELSE secs

\* The warnings after the call for section_name ended with o: one more when
\* the call or the extraction raised.
WarningsAfter(ws, section_name, k, o) ==
    IF o.kind = "raise"
    THEN Append(ws, "Warning: Could not fetch section " \o section_name
                        \o " for " \o k \o ": " \o o.msg)
    ELSE IF Truthy(o.value) /\ o.value.t # "str"
    THEN Append(ws, "Warning: Could not fetch section " \o section_name
                        \o " for " \o k \o ": "
                        \o AttributeErrorText(o.value, "split"))
    ELSE ws

\* One turn of the loop of _get_ticket_sections once its call has ended:
\* the section is kept or dropped; then the next section is asked for, or
\* get_ticket returns the TicketData.
_get_ticket_sections ==
    /\ ticket_pc = "sections"
    /\ call_pc = "done"
    /\ LET o == LastOutcome
           section_name == SectionNames[section_index]
           secs == SectionsAfter(sections, section_name, o)
       IN  IF o.kind = "raise" /\ o.type = "KeyboardInterrupt"
           THEN /\ ticket' = RaiseTicket(o.type, o.msg)
                /\ ticket_pc' = "done"
                /\ call_pc' = "idle"
                /\ UNCHANGED <<sections, warnings, section_index, tool_name,
                               params, process, behaviour, pending, children,
                               trace, call_log>>
           ELSE /\ sections' = secs
                /\ warnings' = WarningsAfter(warnings, section_name, key, o)
                /\ IF section_index < Len(SectionNames)
                   THEN /\ section_index' = section_index + 1
                        /\ BeginCall("get_cr_section",
                               SectionParams(project, key,
                                             SectionNames[section_index + 1]))
                        /\ UNCHANGED <<ticket, ticket_pc>>
                   ELSE /\ ticket' = ReturnTicket(
                               TicketData(attrs.key, attrs.title, attrs.type,
                                          attrs.priority, attrs.status,
                                          secs.description, secs.rationale))
                        /\ ticket_pc' = "done"
                        /\ call_pc' = "idle"
                        /\ UNCHANGED <<section_index, tool_name, params, process,
                                       behaviour, pending, children, trace,
                                       call_log>>
    /\ UNCHANGED <<project, key, attrs>>
    /\ UNCHANGED llm_vars
    /\ UNCHANGED <<summary, verdict, text, fb_summary>>
    /\ UNCHANGED cli_vars

NextTicket ==
    \/ get_ticket
    \/ Popen
    \/ communicate
    \/ kill
    \/ wait
    \/ Finally
    \/ get_ticket_attrs
    \/ _get_ticket_sections

SpecTicket == InitTicket /\ [][NextTicket]_vars

(***************************************************************************)
(* MCPClient._parse_cr_response and _extract_section_content applied on    *)
(* their own                                                               *)
(***************************************************************************)

\* The longest attribute text and the longest section text, in lines.
MaxAttrLines == 2
MaxSectionLines == 4

\* Lines of the text get_cr answers with.
AttrLines ==
    {DOC_ICON \o " **MDT-066** - Queue retries",
     DOC_ICON \o " **MDT-066 - Queue retries**",
     "CR MDT-066",
     "- Status: In Progress",
     "  - Status: Proposed ",
     "- Status: On Hold - Status: was Approved",
     "- Type: Bug Fix",
     "- Priority: High"}

\* Lines of the text get_cr_section answers with.
SectionLines ==
    {"---", " --- ", "",
     "Operators lose queued work today.",
     "  Retries keep the queue draining. ",
     "**Section:** ## Description"}

ResponseTexts ==
    {JoinLines(ls) :
        ls \in UNION {[1..n -> AttrLines] : n \in 1..MaxAttrLines}}
    \cup {JoinLines(ls) :
        ls \in UNION {[1..n -> SectionLines] : n \in 1..MaxSectionLines}}
    \cup {BOOK_ICON \o " **Section Content from CR MDT-066**\n\n"
            \o "**Section:** ## Description\n**Content Length:** 33 characters\n\n"
            \o "---\n\nOperators lose queued work today.\n\n---\n\n"
            \o "Use update_cr_section to modify.",
          "---\n" \o BOOK_ICON \o " **Section Content from CR MDT-066**\n"
            \o "**Content Length:** 33 characters\n"
            \o "Operators lose queued work today.\n\n"
            \o "  **Section:** kept, it is indented\n---\n---\nlate",
          ""}

InitResponse ==
    /\ response_text \in ResponseTexts
    /\ extracted_content = None
    /\ key \in {r[2] : r \in TicketRefs}
    /\ attrs = NoAttrs
    /\ project = None /\ ticket_pc = "idle" /\ section_index = 0
    /\ sections = NoSections /\ warnings = <<>> /\ ticket = NotReturned
    /\ tool_name = None /\ params = JNull /\ call_pc = "idle" /\ process = 0
    /\ children = <<>> /\ behaviour = NoBehaviour /\ pending = Return(JNull)
    /\ trace = <<>> /\ call_log = <<>>
    /\ ticket_id = None /\ verbose = FALSE /\ debug = FALSE
    /\ config_info = FALSE /\ config_issues = <<>>
    /\ normalized = NoMatch /\ main_pc = "idle" /\ printed = <<>>
    /\ exit_code = None
    /\ LlmIdle /\ ValidIdle /\ FbIdle

\* attrs = self._parse_cr_response(attrs_text, key)
ParseResponse ==
    /\ response_text # None
    /\ attrs = NoAttrs
    /\ attrs' = _parse_cr_response(response_text, key)
    /\ UNCHANGED <<project, key, ticket_pc, section_index, sections, warnings,
                   ticket, tool_name, params, call_pc, process, children,
                   behaviour, pending, trace, call_log>>
    /\ UNCHANGED llm_vars
    /\ UNCHANGED <<summary, verdict, text, fb_summary>>
    /\ UNCHANGED cli_vars

\* extracted_content = self._extract_section_content(content)
ExtractSection ==
    /\ response_text # None
    /\ extracted_content = None
    /\ extracted_content' = _extract_section_content(response_text)
    /\ UNCHANGED <<response_text, ticket_id, verbose, debug, config_info,
                   config_issues, normalized, main_pc, printed, exit_code>>
    /\ UNCHANGED mcp_vars
    /\ UNCHANGED llm_vars
    /\ UNCHANGED <<summary, verdict, text, fb_summary>>

NextResponse == ParseResponse \/ ExtractSection

SpecResponse == InitResponse /\ [][NextResponse]_vars

(***************************************************************************)
(* TicketNormalizer.normalize applied on its own                           *)
(***************************************************************************)

\* The longest run of digits an input holds.
MaxDigits == 5

ProjectParts == {"", "MDT", "mdt", "aAa", "M", "M1", "M D", "M-D", "M_D"}

Separators == {"-", "", "--", "_", " - "}

NumberParts ==
    {Rep("7", n) : n \in 0..MaxDigits}
    \cup {"0" \o Rep("7", n) : n \in 0..(MaxDigits - 1)}
    \cup {"66", "00", "6a", "+6", "6.0", "6 6",
          ARABIC_SIX \o ARABIC_SIX, "6" \o ARABIC_SIX \o "60"}

Paddings == {"", " ", "\n", " \t"}

TicketIds ==
    {l \o p \o s \o n \o r :
        l \in Paddings, p \in ProjectParts, s \in Separators,
        n \in NumberParts, r \in Paddings}

InitNormalize ==
    /\ ticket_id \in TicketIds
    /\ normalized = NoMatch
    /\ main_pc = "normalize"
    /\ response_text = None /\ extracted_content = None
    /\ verbose = FALSE /\ debug = FALSE
    /\ config_info = FALSE /\ config_issues = <<>>
    /\ printed = <<>> /\ exit_code = None
    /\ LlmIdle /\ ValidIdle /\ FbIdle
    /\ McpIdle

\* normalized = TicketNormalizer.normalize(ticket_id)
Normalize ==
    /\ main_pc = "normalize"
    /\ normalized' = normalize(ticket_id)
    /\ main_pc' = "normalized"
    /\ UNCHANGED <<response_text, extracted_content, ticket_id, verbose, debug,
                   config_info, config_issues, printed, exit_code>>
    /\ UNCHANGED mcp_vars
    /\ UNCHANGED llm_vars
    /\ UNCHANGED <<summary, verdict, text, fb_summary>>

SpecNormalize == InitNormalize /\ [][Normalize]_vars

(***************************************************************************)
(* main: one run of the command                                            *)
(***************************************************************************)

\* The command lines: the arguments of main, what validate_config finds and
\* the retries the environment sets.
Invocation(id, v, d, c, issues, n) ==
    [ticket_id |-> id, verbose |-> v, debug |-> d, config_info |-> c,
     config_issues |-> issues, max_retries |-> n]

Invocations ==
    {Invocation(id, FALSE, FALSE, FALSE, <<>>, 5) :
        id \in {None, "", "mdt-66", "MDT66", "mdt-" \o ARABIC_SIX}}
    \cup {Invocation(" MDT-066 ", TRUE, FALSE, FALSE, issues, 5) :
            issues \in ConfigIssues}
    \cup {Invocation("mdt-66", FALSE, TRUE, FALSE, <<>>, 1)}
    \cup {Invocation(id, v, FALSE, TRUE, issues, n) :
            id \in {None, "mdt-66"}, v \in BOOLEAN, issues \in ConfigIssues,
            n \in MaxRetriesValues}

InitMain ==
    /\ \E i \in Invocations :
        /\ ticket_id = i.ticket_id
        /\ verbose = i.verbose
        /\ debug = i.debug
        /\ config_info = i.config_info
        /\ config_issues = i.config_issues
        /\ max_retries = i.max_retries
    /\ main_pc = "start"
    /\ normalized = NoMatch
    /\ printed = <<>>
    /\ exit_code = None
    /\ response_text = None /\ extracted_content = None
    /\ description = None /\ rationale = None
    /\ pc = "idle" /\ content = None /\ attempt = 0
    /\ calls = <<>> /\ outcomes = <<>> /\ fallback_calls = <<>>
    /\ result = None /\ raised = FALSE
    /\ ValidIdle /\ FbIdle
    /\ McpIdle

\* The run ends with the lines printed and the exit status.
Exits(lines, status) ==
    /\ printed' = printed \o lines
    /\ exit_code' = status
    /\ main_pc' = "done"

\* main up to its call of get_ticket: the configuration is shown, or the
\* reference is normalized and the configuration validated.
main ==
    /\ main_pc = "start"
    /\ IF config_info
       THEN /\ Exits(print_config_info(max_retries)
                        \o (IF config_issues # <<>>
                            THEN <<"\nConfiguration Issues:">>
                                     \o IssueLines(config_issues)
                            ELSE <<"\n" \o CHECK_ICON \o " Configuration is valid">>),
                     EXIT_SUCCESS)
            /\ UNCHANGED <<normalized, project, key, ticket_pc>>
       ELSE IF ticket_id \in {None, ""}
       THEN /\ Exits(<<format_error("Error: TICKET_ID is required"),
                       "Use 'mdt.py --help' for usage information.">>,
                     EXIT_INVALID_INPUT)
            /\ UNCHANGED <<normalized, project, key, ticket_pc>>
       ELSE LET pair == normalize(ticket_id)
                fetching == IF verbose
                            THEN <<"Fetching ticket: " \o full_key(pair)>>
                            ELSE <<>>
                issues == IF config_issues # <<>>
                          THEN <<format_warning("Configuration issues detected:")>>
                                   \o IssueLines(config_issues) \o <<"">>
                          ELSE <<>>
            IN  /\ normalized' = pair
                /\ IF pair = NoMatch
                   THEN /\ Exits(<<format_error(format_ticket_error(ticket_id))>>,
                                 EXIT_INVALID_INPUT)
                        /\ UNCHANGED <<project, key, ticket_pc>>
                   ELSE IF critical_issues(config_issues) # <<>>
                   THEN /\ Exits(fetching \o issues
                                    \o <<format_error("Critical configuration issues found. Please resolve before continuing.")>>,
                                 EXIT_CONFIG_ERROR)
                        /\ UNCHANGED <<project, key, ticket_pc>>
                   ELSE /\ printed' = printed \o fetching \o issues
                        /\ project' = pair[1]
                        /\ key' = full_key(pair)
                        /\ ticket_pc' = "start"
                        /\ main_pc' = "fetch"
                        /\ UNCHANGED exit_code
    /\ UNCHANGED <<response_text, extracted_content, ticket_id, verbose, debug,
                   config_info, config_issues>>
    /\ UNCHANGED <<section_index, attrs, sections, warnings, ticket, tool_name,
                   params, call_pc, process, children, behaviour, pending, trace,
                   call_log>>
    /\ UNCHANGED llm_vars
    /\ UNCHANGED <<summary, verdict, text, fb_summary>>

\* The content main hands to generate_summary: the sections that are there,
\* else the title; None when there is none of them.
SummaryContent(ticket_data) ==
    LET d == ticket_data.description
        r == ticket_data.rationale
        has(x) == x # None /\ x # ""
    IN  IF has(d) /\ has(r) THEN d \o "\n\n" \o r
        ELSE IF has(d) THEN d
        ELSE IF has(r) THEN r
        ELSE IF has(ticket_data.title) THEN ticket_data.title
        ELSE None

\* main_fetched taking a ticket that is not there for a failed fetch.
main_fetched_not_found_as_error ==
    /\ main_pc = "fetch"
    /\ ticket_pc = "done"
    /\ IF ticket.kind = "None"
       THEN /\ Exits(<<format_error("MCP Error: Ticket not found: " \o key)>>,
                     EXIT_MCP_ERROR)
            /\ UNCHANGED <<description, rationale, pc>>
       ELSE IF ticket.kind = "raise" /\ ticket.type = "MCPClientError"
       THEN /\ Exits(<<format_error("MCP Error: " \o ticket.msg)>>
                        \o (IF verbose
                            THEN <<"Check if MCP server is running at: "
                                       \o ServerPath>>
                            ELSE <<>>),
                     EXIT_MCP_ERROR)
            /\ UNCHANGED <<description, rationale, pc>>
       ELSE IF ticket.kind = "raise"
       THEN /\ Exits(<<"\nOperation cancelled.">>, EXIT_GENERAL_ERROR)
            /\ UNCHANGED <<description, rationale, pc>>
       ELSE LET shown == <<format_basic_ticket_display(ticket.data)>>
                             \o (IF verbose
                                 THEN <<format_info("Generating AI summary...")>>
                                 ELSE <<>>)
                c == SummaryContent(ticket.data)
            IN  IF c # None
                THEN /\ printed' = printed \o shown
                     /\ description' = c
                     /\ rationale' = ""
                     /\ pc' = "start"
                     /\ main_pc' = "summary"
                     /\ UNCHANGED exit_code
                ELSE /\ Exits(shown \o (IF verbose THEN <<"">> ELSE <<>>)
                                 \o <<format_summary_section(NoContentSummary)>>,
                              EXIT_SUCCESS)
                     /\ UNCHANGED <<description, rationale, pc>>
    /\ UNCHANGED <<response_text, extracted_content, ticket_id, verbose, debug,
                   config_info, config_issues, normalized>>
    /\ UNCHANGED mcp_vars
    /\ UNCHANGED <<max_retries, content, attempt, calls, outcomes, fallback_calls,
                   result, raised>>
    /\ UNCHANGED <<summary, verdict, text, fb_summary>>

\* main once get_ticket has ended: the run ends on no ticket and on an
\* error; else the ticket is displayed and generate_summary called.
main_fetched ==
    /\ main_pc = "fetch"
    /\ ticket_pc = "done"
    /\ IF ticket.kind = "None"
       THEN /\ Exits(<<format_error("Ticket not found: " \o key)>>,
                     EXIT_TICKET_NOT_FOUND)
            /\ UNCHANGED <<description, rationale, pc>>
       ELSE IF ticket.kind = "raise" /\ ticket.type = "MCPClientError"
       THEN /\ Exits(<<format_error("MCP Error: " \o ticket.msg)>>
                        \o (IF verbose
                            THEN <<"Check if MCP server is running at: "
                                       \o ServerPath>>
                            ELSE <<>>),
                     EXIT_MCP_ERROR)
            /\ UNCHANGED <<description, rationale, pc>>
       ELSE IF ticket.kind = "raise"
       THEN /\ Exits(<<"\nOperation cancelled.">>, EXIT_GENERAL_ERROR)
            /\ UNCHANGED <<description, rationale, pc>>
       ELSE LET shown == <<format_basic_ticket_display(ticket.data)>>
                             \o (IF verbose
                                 THEN <<format_info("Generating AI summary...")>>
                                 ELSE <<>>)
                c == SummaryContent(ticket.data)
            IN  IF c # None
                THEN /\ printed' = printed \o shown
                     /\ description' = c
                     /\ rationale' = ""
                     /\ pc' = "start"
                     /\ main_pc' = "summary"
                     /\ UNCHANGED exit_code
                ELSE /\ Exits(shown \o (IF verbose THEN <<"">> ELSE <<>>)
                                 \o <<format_summary_section(NoContentSummary)>>,
                              EXIT_SUCCESS)
                     /\ UNCHANGED <<description, rationale, pc>>
    /\ UNCHANGED <<response_text, extracted_content, ticket_id, verbose, debug,
                   config_info, config_issues, normalized>>
    /\ UNCHANGED mcp_vars
    /\ UNCHANGED <<max_retries, content, attempt, calls, outcomes, fallback_calls,
                   result, raised>>
    /\ UNCHANGED <<summary, verdict, text, fb_summary>>

\* main_summarized with a run that fails when the fallback made the summary.
main_summarized_strict ==
    /\ main_pc = "summary"
    /\ pc = "done"
    /\ IF fallback_calls # <<>>
       THEN Exits(<<format_error("Error: summary generation failed")>>,
                  EXIT_LLM_ERROR)
       ELSE Exits(<<format_summary_section(result)>>, EXIT_SUCCESS)
    /\ UNCHANGED <<response_text, extracted_content, ticket_id, verbose, debug,
                   config_info, config_issues, normalized>>
    /\ UNCHANGED mcp_vars
    /\ UNCHANGED llm_vars
    /\ UNCHANGED <<summary, verdict, text, fb_summary>>

\* main once generate_summary has ended: the summary is printed and main
\* returns. generate_summary raises no LLMProcessorError; any other
\* exception leaving it would reach the last handler of main.
main_summarized ==
    /\ main_pc = "summary"
    /\ pc = "done"
    /\ IF raised
       THEN Exits(IF debug \/ verbose
                  THEN <<"Traceback (most recent call last):">>
                  ELSE <<format_error("Error: ")>>,
                  EXIT_GENERAL_ERROR)
       ELSE Exits((IF verbose THEN <<"\r" \o Rep(" ", 50) \o "\r">> ELSE <<>>)
                      \o <<format_summary_section(result)>>,
                  EXIT_SUCCESS)
    /\ UNCHANGED <<response_text, extracted_content, ticket_id, verbose, debug,
                   config_info, config_issues, normalized>>
    /\ UNCHANGED mcp_vars
    /\ UNCHANGED llm_vars
    /\ UNCHANGED <<summary, verdict, text, fb_summary>>

NextMain ==
    \/ main
    \/ get_ticket
    \/ Popen
    \/ communicate
    \/ kill
    \/ wait
    \/ Finally
    \/ get_ticket_attrs
    \/ _get_ticket_sections
    \/ main_fetched
    \/ generate_summary
    \/ _single_summary_attempt
    \/ _generate_summary_with_attempts
    \/ main_summarized

SpecMain == InitMain /\ [][NextMain]_vars

(***************************************************************************)
(* Properties of generate_summary (Spec)                                   *)
(***************************************************************************)

\* The backend's i-th call failed: it raised, or its output was empty or
\* did not pass _is_valid_summary.
Failed(i) ==
    \/ outcomes[i].raised
    \/ Strip(outcomes[i].output) = ""
    \/ ~_is_valid_summary(Strip(outcomes[i].output))

LongContent == content # None /\ Len(content) > 500

ShortContent == content # None /\ Len(content) <= 500

\* C1: generate_summary is total: whatever the two strings are and whatever
\* the backend does on each attempt (any output, an empty one, an exception),
\* no exception leaves it, it stops after at most three backend calls, and
\* what it returns is a non-empty string.
SummaryIsTotal ==
    /\ ~raised
    /\ pc \in {"start", "single", "ladder", "done"}
    /\ Len(calls) <= 3
    /\ pc = "ladder" => attempt = Len(calls) + 1
    /\ pc = "done" => result # None /\ Len(result) > 0

\* C1 witness: a call returned a string although the backend raised on all
\* three attempts.
TotalWhenBackendDown ==
    /\ pc = "done"
    /\ Len(outcomes) = 3
    /\ \A i \in 1..3 : outcomes[i].raised
    /\ result # None

\* C2 (as claimed): for content of at most 500 characters, when the single
\* attempt raises or returns a candidate that fails validation, the value
\* returned is the fallback's output for the content.
ShortInvalidFallsBack ==
    (pc = "done" /\ ShortContent /\ Len(outcomes) = 1 /\ Failed(1))
        => result = _fallback_summary(content)

\* C3: for non-empty content of at most 500 characters there is exactly one
\* backend call, with attempt index 1, whatever it returns or raises, and
\* the ladder is never entered; 501 characters never take the single
\* attempt.
ShortContentOneCall ==
    /\ ShortContent =>
        /\ pc \in {"single", "done"}
        /\ attempt = 0
        /\ pc = "single" => calls = <<>>
        /\ pc = "done" => Len(calls) = 1 /\ calls[1].attempt = 1
    /\ LongContent => pc # "single"

\* C3 witness: content of exactly 500 characters, one call, which raised.
BoundaryContentOneCall ==
    /\ pc = "done"
    /\ content # None /\ Len(content) = 500
    /\ Len(calls) = 1
    /\ outcomes[1].raised

\* C4: for content longer than 500 characters the attempts are issued in the
\* order 1, 2, 3, never more than three whatever max_retries is; a candidate
\* that passes validation is returned at once and ends the ladder; a failed
\* attempt 1 or 2 is followed by the next attempt.
LadderOrder ==
    LongContent =>
        /\ Len(calls) <= 3
        /\ Len(outcomes) = Len(calls)
        /\ \A i \in 1..Len(calls) : calls[i].attempt = i
        /\ pc = "ladder" => attempt = Len(calls) + 1 /\ attempt <= 3
        /\ \A i \in 1..Len(outcomes) :
            IF Failed(i)
            THEN i \in {1, 2} =>
                    \/ Len(calls) > i
                    \/ pc = "ladder" /\ attempt = i + 1
            ELSE /\ i = Len(outcomes)
                 /\ pc = "done"
                 /\ result = Strip(outcomes[i].output)

\* C4 witness: three attempts were made with max_retries set to 1, and the
\* third candidate was returned.
ThirdAttemptAccepted ==
    /\ pc = "done"
    /\ max_retries = 1
    /\ Len(calls) = 3
    /\ Failed(1) /\ Failed(2) /\ ~Failed(3)
    /\ result = Strip(outcomes[3].output)

\* C5: for content longer than 500 characters the fallback is used if and
\* only if all three attempts failed; then exactly three backend calls were
\* made and the result is the fallback's output on the full content.
FallbackIffAllFailed ==
    (pc = "done" /\ LongContent) =>
        /\ (fallback_calls # <<>>) <=>
               (Len(outcomes) = 3 /\ \A i \in 1..3 : Failed(i))
        /\ fallback_calls # <<>> =>
            /\ Len(calls) = 3
            /\ content = CombinedContent(description, rationale)
            /\ fallback_calls = <<content>>
            /\ result = _fallback_summary(content)

\* C5 witness: the first attempt raised, the second and third returned
\* invalid candidates, and the fallback's output was returned.
FallbackAfterThreeFailures ==
    /\ pc = "done"
    /\ LongContent
    /\ Len(outcomes) = 3
    /\ outcomes[1].raised /\ ~outcomes[2].raised /\ ~outcomes[3].raised
    /\ Failed(2) /\ Failed(3)
    /\ fallback_calls = <<content>>

\* C6: the request of each attempt is determined by its index and the
\* content alone: attempt 1 sends the full content with temperature 0.3 and
\* 150 tokens; attempt 2 the first 800 characters followed by the 10-20 word
\* instruction with 0.2 and 100; attempt 3 one fixed prompt with 0.0 and 40.
AttemptParams ==
    \A i \in 1..Len(calls) :
        LET c == calls[i]
        IN  /\ c.attempt \in {1, 2, 3}
            /\ c.attempt = 1 =>
                /\ c.user_content = content
                /\ c.temp = "0.3" /\ c.max_tokens = 150
            /\ c.attempt = 2 =>
                /\ c.user_content =
                       (IF Len(content) <= 800 THEN content
                        ELSE SubSeq(content, 1, 800))
                       \o "\n\nSummarize the key improvement or fix being described above in 10-20 words."
                /\ c.temp = "0.2" /\ c.max_tokens = 100
            /\ c.attempt = 3 =>
                /\ c.user_content =
                       "Create a dashboard for managing multiple projects. What does this solve? Answer in 10 words maximum."
                /\ c.temp = "0.0" /\ c.max_tokens = 40

\* C6 witness: all three requests were sent for content longer than 800
\* characters, after two attempts with different outcomes.
ThreeRequestsLongContent ==
    /\ Len(calls) = 3
    /\ Len(content) > 800
    /\ outcomes[1].raised /\ ~outcomes[2].raised

\* C10: with both description and rationale empty, generate_summary returns
\* the 'no content' sentinel and calls neither the backend nor the fallback.
EmptyInputSentinel ==
    (description = "" /\ rationale = "" /\ pc # "start") =>
        /\ pc = "done"
        /\ result = "No content available for summary"
        /\ calls = <<>>
        /\ fallback_calls = <<>>

\* C10 witness: generate_summary returned for two empty strings.
EmptyInputReturned ==
    description = "" /\ rationale = "" /\ pc = "done"

(***************************************************************************)
(* Properties of _is_valid_summary (SpecValid)                             *)
(***************************************************************************)

\* The six heuristics, as stated.
SixHeuristics(s) ==
    /\ Len(s) > 0
    /\ WordCount(s) >= 5 /\ WordCount(s) <= 30
    /\ Len(s) <= 250
    /\ ~Contains(s, "##")
    /\ Cardinality({i \in 1..Len(Split(s, "\n")) :
                        Strip(Split(s, "\n")[i]) # ""}) <= 2
    /\ ~Contains(s, "- ") /\ ~Contains(s, BULLET \o " ") /\ ~Contains(s, "* ")

\* C7: _is_valid_summary accepts a candidate if and only if all six
\* heuristics hold; in particular 30 words are accepted and 31 or 4 rejected.
ValidIffSixHeuristics ==
    verdict # None =>
        /\ (verdict = "True") <=> SixHeuristics(summary)
        /\ summary = Words(30) => verdict = "True"
        /\ summary \in {Words(31), Words(4)} => verdict = "False"

\* C7 witness: a candidate of exactly 30 words was accepted.
ThirtyWordsAccepted ==
    verdict = "True" /\ WordCount(summary) = 30

(***************************************************************************)
(* Properties of _fallback_summary (SpecFallback)                          *)
(***************************************************************************)

\* The non-blank lines of t, stripped.
TextLines(t) ==
    SelectSeq(StripAll(Split(t, "\n")), LAMBDA line : line # "")

\* Every non-blank line of t starts with a bullet marker.
AllBulletLines(t) ==
    \A i \in 1..Len(TextLines(t)) :
        \/ StartsWith(TextLines(t)[i], "-")
        \/ StartsWith(TextLines(t)[i], "*")
        \/ StartsWith(TextLines(t)[i], BULLET)

\* The lines or sentences the fallback builds its summary from.
FallbackSentences(t) ==
    IF Len(_extract_meaningful_sentences(t)) > 0
    THEN _extract_meaningful_sentences(t)
    ELSE _extract_simple_sentences(t)

\* C8 (as claimed): for a text whose non-blank lines are all bullet lines
\* the fallback returns the 'unable to summarize' sentinel.
BulletsGiveSentinel ==
    (fb_summary # None /\ AllBulletLines(text)) => fb_summary = UnableSummary

\* The pieces of t between '. ' separators, and those longer than 20
\* characters once trimmed.
Pieces(t) == Split(t, ". ")

LongPieces(t) == {i \in 1..Len(Pieces(t)) : Len(Strip(Pieces(t)[i])) > 20}

\* out is p, or a prefix of p followed by an ellipsis.
ShortenedFrom(p, out) ==
    \/ out = p
    \/ /\ EndsWith(out, "...")
       /\ StartsWith(p, SubSeq(out, 1, Len(out) - 3))

\* C8 (amended): for a text whose non-blank lines are all bullet lines the
\* fallback returns the sentinel when no '. '-separated piece of the text is
\* longer than 20 characters after trimming; otherwise it returns one such
\* piece of the bullet text, markers included, shortened by the length rule.
BulletsGiveSentinelOrPiece ==
    (fb_summary # None /\ AllBulletLines(text)) =>
        IF LongPieces(text) = {}
        THEN fb_summary = "Unable to generate summary from content"
        ELSE \E i \in LongPieces(text) :
                ShortenedFrom(Strip(Pieces(text)[i]), fb_summary)

\* C8 witness: a text of bullet lines only for which the fallback returned
\* bullet text.
BulletTextReturned ==
    /\ fb_summary # None
    /\ Len(TextLines(text)) = 2
    /\ AllBulletLines(text)
    /\ fb_summary # UnableSummary
    /\ StartsWith(fb_summary, "-")

\* C9 (as claimed): a summary built from collected lines or sentences is at
\* most 150 characters long with its ellipsis, and joined text of at most
\* 150 characters is returned as it is.
SummaryWithinLimit ==
    (fb_summary # None /\ Len(FallbackSentences(text)) > 0) =>
        LET joined == JoinSpace(Take(FallbackSentences(text), 2))
        IN  /\ Len(fb_summary) <= 150
            /\ Len(joined) <= 150 => fb_summary = joined

(***************************************************************************)
(* Properties of _call_mcp_tool (SpecCall)                                 *)
(***************************************************************************)

\* The call has ended.
Finished == call_pc = "done"

\* The child exited with status 0 and the call has ended.
ExitedZero == Finished /\ behaviour.kind = "exit" /\ behaviour.returncode = 0

\* The steps of call n, in order.
RECURSIVE OpsFrom(_, _)
OpsFrom(n, i) ==
    IF i > Len(trace) THEN <<>>
    ELSE IF trace[i].call = n THEN <<trace[i].op>> \o OpsFrom(n, i + 1)
    ELSE OpsFrom(n, i + 1)

Ops(n) == OpsFrom(n, 1)

\* The positions of the lines of out that start with '{' once trimmed, and
\* the last of them, trimmed.
BraceLines(out) ==
    LET out_lines == Split(out, "\n")
    IN  {i \in 1..Len(out_lines) : StartsWith(Strip(out_lines[i]), "{")}

Candidate(out) ==
    LET brace_lines == BraceLines(out)
    IN  Strip(Split(out, "\n")[CHOOSE i \in brace_lines :
                                   \A j \in brace_lines : j <= i])

\* The child that did b exited with status 0 after an envelope that parses.
AnsweredBy(b) ==
    /\ b.kind = "exit"
    /\ b.returncode = 0
    /\ BraceLines(b.stdout) # {}
    /\ json_loads(Candidate(b.stdout)).ok

EnvelopeOf(b) == json_loads(Candidate(b.stdout)).value

Answered == Finished /\ AnsweredBy(behaviour)

Envelope == EnvelopeOf(behaviour)

\* What the caller gets when the try block ends with o.
Surfaced(o) == IF o.kind = "return" THEN o ELSE ExceptException(o)

\* An item of a content list whose type is text.
IsTextItem(x) ==
    /\ x.t = "dict"
    /\ HasKey(x, "type")
    /\ Get(x, "type") = JStr("text")
    /\ HasKey(x, "text")

\* The texts of the text items of a content list, in order.
RECURSIVE TypedTexts(_, _)
TypedTexts(items, i) ==
    IF i > Len(items) THEN ""
    ELSE IF IsTextItem(items[i]) THEN Get(items[i], "text").s \o TypedTexts(items, i + 1)
    ELSE TypedTexts(items, i + 1)

\* C11: when the result of the response is an object with a content list,
\* the call returns the texts of exactly the items whose type is text, in
\* order, items of other types being ignored even when they carry a text;
\* a result without a content list is returned as it is.
ReturnsTextOfTextItems ==
    (/\ Answered
     /\ ~HasKey(Envelope, "error")
     /\ HasKey(Envelope, "result"))
    => LET res == Get(Envelope, "result")
       IN  IF /\ res.t = "dict" /\ HasKey(res, "content")
              /\ Get(res, "content").t = "list"
           THEN (\A i \in 1..Len(Get(res, "content").items) :
                    IsTextItem(Get(res, "content").items[i])
                        => Get(Get(res, "content").items[i], "text").t = "str")
                => LastOutcome = Return(JStr(TypedTexts(Get(res, "content").items, 1)))
           ELSE LastOutcome = Return(res)

\* C12: the response is the last line of the output that starts with '{'
\* once trimmed, whatever the other lines are; when no line does, the call
\* raises the error of a missing response and returns nothing.
LastBraceLineIsCandidate ==
    ExitedZero
    => IF BraceLines(behaviour.stdout) = {}
       THEN /\ LastOutcome.kind = "raise"
            /\ LastOutcome.type = "MCPClientError"
            /\ EndsWith(LastOutcome.msg, "No JSON response found in MCP server output")
       ELSE LastOutcome =
                Surfaced(AfterCommunicate(0, Candidate(behaviour.stdout), ""))

\* C12 witness: a response after two log lines was returned.
ResponseAfterTwoLogLines ==
    /\ Finished
    /\ behaviour =
          Exit(0, LogLine \o "\n" \o LogLine \o "\n" \o Doc("TwoTexts").text \o "\n", "")
    /\ LastOutcome = Return(JStr("AB"))

\* C13: when the child exits with a status other than 0, the call raises the
\* error of the server, which carries what the child wrote to its standard
\* error, whatever it wrote to its standard output.
NonZeroExitCarriesStderr ==
    (Finished /\ behaviour.kind = "exit" /\ behaviour.returncode # 0)
    => /\ LastOutcome.kind = "raise"
       /\ LastOutcome.type = "MCPClientError"
       /\ EndsWith(LastOutcome.msg,
                   "MCP server error: "
                       \o (IF behaviour.stderr = "" THEN "Unknown error"
                           ELSE Strip(behaviour.stderr)))

\* C13 witness: the child wrote a valid response and a complaint, and exited
\* with 1; the complaint was raised.
FailedExitWithResponse ==
    /\ Finished
    /\ behaviour = Exit(1, Doc("TwoTexts").text \o "\n", "Error: Cannot find module\n")
    /\ LastOutcome.kind = "raise"
    /\ EndsWith(LastOutcome.msg, "MCP server error: Error: Cannot find module")

\* The kind of failure a message tells the caller of.
ErrorKind(msg) ==
    LET wrapped(m) == StartsWith(msg, "Unexpected error calling MCP server: " \o m)
    IN  IF msg = "MCP server timeout" THEN "Timeout"
        ELSE IF StartsWith(msg, "MCP server not found at ") THEN "BackendNotFound"
        ELSE IF wrapped("MCP server error: ") THEN "BackendError"
        ELSE IF wrapped("MCP tool error: ") THEN "ToolError"
        ELSE IF \/ wrapped("No JSON response found in MCP server output")
                \/ wrapped("Invalid JSON response from MCP server: ")
                \/ wrapped("Invalid MCP response format")
        THEN "MalformedResponse"
        ELSE "Unexpected"

\* The kind of failure the child's behaviour calls for; None when it calls
\* for none of them.
FailureKind(b) ==
    IF b.kind = "TimeoutExpired" THEN "Timeout"
    ELSE IF b.kind # "exit" THEN None
    ELSE IF b.returncode # 0 THEN "BackendError"
    ELSE IF ~AnsweredBy(b) THEN "MalformedResponse"
    ELSE LET envelope == EnvelopeOf(b)
         IN  IF HasKey(envelope, "error") THEN "ToolError"
             ELSE IF ~HasKey(envelope, "result") THEN "MalformedResponse"
             ELSE None

\* C14: after an exit with status 0, a line that is no JSON gives a
\* malformed-response error, an envelope with an error gives a tool error
\* that carries the error, with or without a result beside it, and an
\* envelope with neither gives a malformed-response error; the error raised
\* tells these kinds from each other and from a timeout, a failed server
\* and a server that was not found.
FailureKindsTold ==
    Finished
    => LET called_for == FailureKind(behaviour)
           told == ErrorKind(LastOutcome.msg)
       IN  /\ (process # 0 /\ called_for # None)
                => /\ LastOutcome.kind = "raise"
                   /\ LastOutcome.type = "MCPClientError"
                   /\ told = called_for
           /\ (process # 0 /\ called_for = "ToolError")
                => EndsWith(LastOutcome.msg,
                            "MCP tool error: " \o PyStr(Get(Envelope, "error")))
           /\ (process = 0)
                => /\ LastOutcome.kind = "raise"
                   /\ told \in {"BackendNotFound", "Unexpected"}
           /\ (process # 0 /\ called_for = None /\ LastOutcome.kind = "raise")
                => \/ told = "Unexpected"
                   \/ LastOutcome.type # "MCPClientError"

\* C14 witness: an envelope with a result and an error gave the tool error.
ToolErrorBesideResult ==
    /\ Finished
    /\ behaviour = Exit(0, Doc("ErrAndResult").text \o "\n", "")
    /\ LastOutcome.kind = "raise"
    /\ ErrorKind(LastOutcome.msg) = "ToolError"
    /\ EndsWith(LastOutcome.msg, "MCP tool error: boom")

\* C15: when the timeout expires the child is killed, then waited for, and
\* only then is the timeout raised: the child is not running when the
\* error reaches the caller.
TimeoutKillsThenWaits ==
    (process # 0 /\ behaviour.kind = "TimeoutExpired")
    => /\ pending = Raise("MCPClientError", "MCP server timeout")
       /\ children[process].state # "reaped"
            => call_pc \in {"except_kill", "except_wait"}
       /\ Finished
            => /\ LastOutcome = pending
               /\ children[process].state = "reaped"
               /\ Ops(Len(call_log)) =
                      <<"Popen", "communicate", "kill", "wait", "poll", "raise">>

\* C15 witness: a timeout was raised, the child reaped.
TimeoutSurfaced ==
    /\ Finished
    /\ behaviour.kind = "TimeoutExpired"
    /\ LastOutcome.msg = "MCP server timeout"
    /\ children[process].state = "reaped"

\* C16: however the call ends, every child it spawned has ended and has
\* been reaped by then.
NoChildLeftBehind ==
    Finished => \A i \in 1..Len(children) : children[i].state = "reaped"

\* C16 witness: communicate was interrupted while the child was running;
\* the interrupt left the call with the child reaped.
InterruptedChildReaped ==
    /\ Finished
    /\ behaviour = Failure("KeyboardInterrupt", "running")
    /\ LastOutcome.type = "KeyboardInterrupt"
    /\ children[process].state = "reaped"

(***************************************************************************)
(* Properties of get_ticket (SpecTicket)                                   *)
(***************************************************************************)

\* How many of the steps ops are op.
Count(ops, op) == Cardinality({i \in 1..Len(ops) : ops[i] = op})

\* The calls whose child was started: the ended ones, and the one under way.
Spawned ==
    Cardinality({n \in 1..Len(call_log) : call_log[n].process # 0})
    + (IF call_pc \notin {"idle", "done", "Popen"} /\ process # 0 THEN 1 ELSE 0)

NoUsableText(b) ==
    /\ AnsweredBy(b)
    /\ ~HasKey(EnvelopeOf(b), "error")
    /\ HasKey(EnvelopeOf(b), "result")
    /\ LET res == Get(EnvelopeOf(b), "result")
       IN  \/ res.t = "NoneType"
           \/ /\ res.t = "dict"
              /\ HasKey(res, "content")
              /\ Get(res, "content").t = "list"
              /\ \A i \in 1..Len(Get(res, "content").items) :
                    LET x == Get(res, "content").items[i]
                    IN  ~(/\ x.t = "dict"
                          /\ HasKey(x, "text")
                          /\ Get(x, "text").t = "str"
                          /\ Get(x, "text").s # "")

\* C18: when get_cr ends without an error of the protocol and with no usable
\* text (an empty text, a content list without text items, an empty content
\* list), get_ticket returns None, raises nothing, and asks for no section.
NoUsableTextGivesNone ==
    (ticket_pc = "done" /\ NoUsableText(call_log[1].behaviour)
        /\ call_log[1].process # 0)
    => /\ ticket = ReturnNone
       /\ Len(call_log) = 1

\* What the record holds for a section whose call ended with o.
SectionOf(o) ==
    IF o.kind = "return" /\ o.value.t = "str"
    THEN IF _extract_section_content(o.value.s) # ""
         THEN _extract_section_content(o.value.s)
         ELSE None
    ELSE None

\* get_cr returned a text that is not empty.
AttrsFetched ==
    /\ Len(call_log) >= 1
    /\ call_log[1].outcome.kind = "return"
    /\ call_log[1].outcome.value.t = "str"
    /\ call_log[1].outcome.value.s # ""

\* C19: once the attributes are fetched, get_ticket returns a record whatever
\* the two section calls end with: both are made, a section whose call
\* failed or whose extraction is empty is None in the record, the other one
\* is there when its call succeeded, and nothing is raised.
SectionFailuresOmitted ==
    (ticket_pc = "done" /\ AttrsFetched)
    => /\ ticket.kind = "TicketData"
       /\ Len(call_log) = 3
       /\ \A i \in 1..2 :
            /\ call_log[i + 1].tool_name = "get_cr_section"
            /\ call_log[i + 1].params = SectionParams(project, key, SectionNames[i])
       /\ ticket.data.description = SectionOf(call_log[2].outcome)
       /\ ticket.data.rationale = SectionOf(call_log[3].outcome)

\* C19 witness: the call for the description failed, the record holds the
\* rationale alone.
RationaleWithoutDescription ==
    /\ ticket_pc = "done"
    /\ AttrsFetched
    /\ call_log[2].outcome.kind = "raise"
    /\ ticket.kind = "TicketData"
    /\ ticket.data.description = None
    /\ ticket.data.rationale # None

\* C20: an error of the transport or of the protocol in the fetch of the
\* attributes makes get_ticket raise: no record is returned and no section is
\* asked for; the same errors in the fetch of a section are not raised.
AttributeErrorsFatalSectionErrorsAbsorbed ==
    ticket_pc = "done"
    => /\ call_log[1].outcome.kind = "raise"
            => /\ ticket.kind = "raise"
               /\ ticket.type = "MCPClientError"
               /\ ticket.msg = "Error fetching ticket " \o key \o ": "
                                    \o call_log[1].outcome.msg
               /\ Len(call_log) = 1
       /\ \A n \in 2..Len(call_log) :
            call_log[n].outcome.kind = "raise" => ticket.kind = "TicketData"

\* C20 witness: get_cr ran into the timeout, get_ticket raised after that
\* one call.
FetchErrorRaised ==
    /\ ticket_pc = "done"
    /\ Len(call_log) = 1
    /\ call_log[1].outcome.msg = "MCP server timeout"
    /\ ticket.kind = "raise"
    /\ ticket.msg = "Error fetching ticket " \o key \o ": MCP server timeout"

(***************************************************************************)
(* Properties of the parsers of mcp_client (SpecResponse)                  *)
(***************************************************************************)

\* The lines of the response, each one trimmed.
ResponseLines == StripAll(Split(response_text, "\n"))

\* What is left of line once prefix is taken off its start, trimmed.
PrefixStripped(line, prefix) == Strip(SubSeq(line, Len(prefix) + 1, Len(line)))

\* value is right for the field of prefix: the default when no line starts
\* with prefix, else a line that does, with prefix stripped and trimmed.
FieldFrom(value, prefix, default) ==
    LET matching ==
            {i \in 1..Len(ResponseLines) : StartsWith(ResponseLines[i], prefix)}
    IN  IF matching = {} THEN value = default
        ELSE \E i \in matching : value = PrefixStripped(ResponseLines[i], prefix)

\* A line the title is read from.
IsHeaderLine(line) == StartsWith(line, DOC_ICON \o " **") /\ Contains(line, " - ")

\* C21: the record's key, title, type, priority and status are populated: a
\* field no line of the text matches holds its default ('No Title',
\* 'Unknown', 'Medium', 'Unknown', the key asked for), and a field with a
\* '- Status:', '- Type:' or '- Priority:' line holds that line with the
\* prefix stripped and trimmed.
FieldsDefaultOrPrefixStripped ==
    attrs # NoAttrs
    => /\ attrs.key = key
       /\ (\A i \in 1..Len(ResponseLines) : ~IsHeaderLine(ResponseLines[i]))
            => attrs.title = "No Title"
       /\ FieldFrom(attrs.status, "- Status:", "Unknown")
       /\ FieldFrom(attrs.type, "- Type:", "Unknown")
       /\ FieldFrom(attrs.priority, "- Priority:", "Medium")

\* The positions of the '---' lines among ls, and the least of a set of
\* positions.
Delimiters(ls) == {i \in 1..Len(ls) : Strip(ls[i]) = "---"}

Least(ds) == CHOOSE i \in ds : \A j \in ds : i <= j

\* A metadata marker: the header with the icon, 'Section:', 'Content Length:'.
IsMarker(line) ==
    \/ StartsWith(line, BOOK_ICON)
    \/ StartsWith(line, "**Section:")
    \/ StartsWith(line, "**Content Length:")

NotMarker(line) == ~IsMarker(line)

ContentLine(line) == Strip(line) # "" /\ ~IsMarker(line)

\* C22 as stated: the payload is exactly the lines between the first and the
\* second '---' line, in order, with only the marker lines removed.
PayloadIsDelimitedLines ==
    extracted_content # None
    => LET ls == Split(response_text, "\n")
           ds == Delimiters(ls)
           first == Least(ds)
           second == Least(ds \ {first})
       IN  Cardinality(ds) >= 2
           => extracted_content =
                 JoinLines(SelectSeq(SubSeq(ls, first + 1, second - 1), NotMarker))

\* C22: the payload is the lines after the first '---' line and before the
\* second one, or up to the end of the text when there is no second, in
\* order, without the blank lines and the lines that start with a marker,
\* joined by newlines and trimmed; without a '---' line it is empty. Lines
\* before the first '---' line or after the second never appear in it.
PayloadIsContentLines ==
    extracted_content # None
    => LET ls == Split(response_text, "\n")
           ds == Delimiters(ls)
           first == Least(ds)
           last == IF Cardinality(ds) >= 2 THEN Least(ds \ {first}) - 1
                   ELSE Len(ls)
       IN  extracted_content =
              IF ds = {} THEN ""
              ELSE Strip(JoinLines(SelectSeq(SubSeq(ls, first + 1, last),
                                             ContentLine)))

\* C22 witness: the payload of a response with a header before the first
\* '---' line and a hint after the second.
PayloadOfFullResponse ==
    /\ extracted_content = "Operators lose queued work today."
    /\ Cardinality(Delimiters(Split(response_text, "\n"))) = 2
    /\ StartsWith(response_text, BOOK_ICON)
    /\ EndsWith(response_text, "Use update_cr_section to modify.")


(***************************************************************************)
(* Properties of TicketNormalizer.normalize (SpecNormalize)                *)
(***************************************************************************)

\* The input of normalize, trimmed and upper-cased.
Canonical == Upper(Strip(ticket_id))

\* The part of the canonical input before its first hyphen and the part
\* after it.
LetterPart == SubSeq(Canonical, 1, Find(Canonical, "-", 1) - 1)

DigitPart == SubSeq(Canonical, Find(Canonical, "-", 1) + 1, Len(Canonical))

\* ^[A-Z]+-[0-9]+$ : ASCII letters, one hyphen, ASCII digits.
AsciiPattern(s) ==
    LET h == Find(s, "-", 1)
        letters == SubSeq(s, 1, h - 1)
        digits == SubSeq(s, h + 1, Len(s))
    IN  /\ h > 1
        /\ AllIn(letters, UpperLetters)
        /\ digits # ""
        /\ AllIn(digits, AsciiDigits)

IdAccepted == main_pc = "normalized" /\ normalized # NoMatch

\* C23: normalize returns a pair exactly for the inputs that, trimmed and
\* upper-cased, match ^[A-Z]+-[0-9]+$ with ASCII letters and ASCII digits,
\* and the invalid outcome for every other input.
AcceptedIffAsciiPattern ==
    main_pc = "normalized"
    => /\ (normalized # NoMatch) <=> AsciiPattern(Canonical)
       /\ normalized # NoMatch => Len(normalized) = 2

\* C24: the number of an accepted input is its digit string, left-padded
\* with '0' to width 3 when it has fewer than 3 digits and unchanged when it
\* has 3 or more; the project is the letter part, upper-cased.
NumberPaddedNotCut ==
    IdAccepted
    => /\ normalized[1] = LetterPart
       /\ Len(DigitPart) < 3
            => normalized[2] = Rep("0", 3 - Len(DigitPart)) \o DigitPart
       /\ Len(DigitPart) >= 3 => normalized[2] = DigitPart

\* C24 witness: a padded, lower-case input of one digit was padded to three,
\* its letters upper-cased.
OneDigitPadded ==
    /\ main_pc = "normalized"
    /\ ticket_id = " mdt-7\n"
    /\ normalized = <<"MDT", "007">>

\* C25: the result of an accepted input, formatted as project-number and
\* normalized again, is accepted and gives the same result.
NormalizeIdempotent ==
    IdAccepted => normalize(full_key(normalized)) = normalized

\* C25 witness: "aAa-77" gave ("AAA", "077"), and "AAA-077" gives it again.
FormattedAgain ==
    /\ main_pc = "normalized"
    /\ ticket_id = "aAa-77"
    /\ full_key(normalized) = "AAA-077"
    /\ normalize("AAA-077") = normalized

\* C26 as stated: the project of every reference matches ^[A-Z]+$ and its
\* number is a decimal string of width 3.
NumberOfWidthThree ==
    IdAccepted
    => /\ normalized[1] # "" /\ AllIn(normalized[1], UpperLetters)
       /\ Len(normalized[2]) = 3
       /\ AllIn(normalized[2], DecimalDigits)

\* C26, amended: the project of every reference matches ^[A-Z]+$; its number
\* is a string of decimal digits of width 3 when the input had at most 3
\* digits and of the width of the input's digits when it had more.
NumberOfWidthThreeOrMore ==
    IdAccepted
    => /\ normalized[1] # "" /\ AllIn(normalized[1], UpperLetters)
       /\ AllIn(normalized[2], DecimalDigits)
       /\ Len(normalized[2]) = (IF Len(DigitPart) <= 3 THEN 3 ELSE Len(DigitPart))

\* C26 witness: a number of five digits was kept at width five.
FiveDigitsKept ==
    /\ main_pc = "normalized"
    /\ ticket_id = "MDT-07777"
    /\ normalized = <<"MDT", "07777">>


(***************************************************************************)
(* Properties of the extraction of the fallback (SpecFallback)             *)
(***************************************************************************)

\* The lines of the text, stripped.
StrippedLines == StripAll(Split(text, "\n"))

\* A line the line extraction does not skip, whose length after the removal
\* of the emphasis markers exceeds 30 characters.
Qualifies(line) ==
    /\ line # ""
    /\ ~_should_skip_line(line)
    /\ _is_meaningful_line(line)
    /\ Len(_clean_line(line)) > 30

\* A line that starts the suppression.
StartsSuppression(line) ==
    line # "" /\ _should_skip_line(line) /\ _is_section_header(line)

\* x is an element of the sequence xs.
InSeq(x, xs) == \E k \in 1..Len(xs) : xs[k] = x

\* C28: after a section header line has set the flag, a later line that is
\* not skipped and whose cleaned length exceeds 30 characters is collected
\* (unless 3 lines were collected before it).
HeaderSuppressionEnds ==
    fb_summary # None
    => LET ls == StrippedLines
           got == _extract_meaningful_sentences(text)
       IN  \A i \in 1..Len(ls) : \A j \in (i + 1)..Len(ls) :
               (StartsSuppression(ls[i]) /\ Qualifies(ls[j]))
               => \/ InSeq(_clean_line(ls[j]), got)
                  \/ Len(got) >= 3

\* The '. '-separated candidate sentences of t: the trimmed pieces longer
\* than 20 characters.
CandidateSentences(t) ==
    StripAll(SelectSeq(Pieces(t), LAMBDA p : Len(Strip(p)) > 20))

\* The sentence holds one of the known-bad substrings.
KnownBad(sentence) ==
    \E phrase \in {"managing multiple projects", "each project has", "users must"} :
        Contains(Lower(sentence), phrase)

\* The first of the first n candidates of cs that is not known-bad, or the
\* first candidate when each of them is.
FirstSurviving(cs, n) ==
    LET ok == {i \in 1..Len(cs) : i <= n /\ ~KnownBad(cs[i])}
    IN  IF ok = {} THEN cs[1]
        ELSE cs[CHOOSE i \in ok : \A j \in ok : i <= j]

\* No line qualified and the text has candidate sentences.
SentencesUsed ==
    /\ fb_summary # None
    /\ _extract_meaningful_sentences(text) = <<>>
    /\ CandidateSentences(text) # <<>>

\* C29 as stated: when no line qualified, the summary is made of the first
\* candidate sentence that holds no known-bad substring, however many
\* candidates there are, and of the first candidate only when every
\* candidate holds one.
FirstCleanSentenceReturned ==
    SentencesUsed
    => LET cs == CandidateSentences(text)
       IN  ShortenedFrom(FirstSurviving(cs, Len(cs)), fb_summary)

\* C29, amended: when no line qualified, the summary is made of the first of
\* the first 3 candidate sentences that holds no known-bad substring, and
\* of the first candidate when each of the first 3 holds one, whatever the
\* fourth and later candidates hold.
FirstCleanOfThreeReturned ==
    SentencesUsed
    => LET cs == CandidateSentences(text)
           sentence == FirstSurviving(cs, 3)
       IN  /\ ShortenedFrom(sentence, fb_summary)
           /\ Len(sentence) <= 120 => fb_summary = sentence

\* C29 witness: the first three sentences of a bullet line are known-bad and
\* the fourth is not; the first was returned.
FourthSentencePassedOver ==
    /\ fb_summary = "- Users must restart the worker by hand"
    /\ Len(CandidateSentences(text)) = 4
    /\ ~KnownBad(CandidateSentences(text)[4])
    /\ \A i \in 1..3 : KnownBad(CandidateSentences(text)[i])

\* The lines of the text that qualify and have no section header line
\* before them.
Collectable ==
    LET ls == StrippedLines
    IN  {j \in 1..Len(ls) :
            /\ Qualifies(ls[j])
            /\ \A i \in 1..(j - 1) : ~StartsSuppression(ls[i])}

\* C30: the extraction collects only lines whose cleaned length exceeds 30
\* characters, in the order of the text, and no line after the third; the
\* summary is made of the first 2 collected lines joined by one space, by
\* the length rule.
CollectsThreeJoinsTwo ==
    fb_summary # None
    => LET ls == StrippedLines
           got == _extract_meaningful_sentences(text)
           from == Collectable
           nth(k) == CHOOSE j \in from : Cardinality({i \in from : i <= j}) = k
           joined == IF Len(got) = 1 THEN got[1] ELSE got[1] \o " " \o got[2]
       IN  /\ Len(got) = (IF Cardinality(from) > 3 THEN 3 ELSE Cardinality(from))
           /\ \A k \in 1..Len(got) :
                  got[k] = _clean_line(ls[nth(k)]) /\ Len(got[k]) > 30
           /\ got # <<>>
                => /\ ShortenedFrom(joined, fb_summary)
                   /\ Len(joined) <= 120 => fb_summary = joined

\* C30 witness: four lines qualify, one short line between them; the summary
\* is the first two.
TwoOfFourLinesJoined ==
    /\ Cardinality(Collectable) = 4
    /\ Len(StrippedLines) = 4
    /\ Len(_extract_meaningful_sentences(text)) = 3
    /\ fb_summary = "Retries keep the queue draining under load "
                        \o "The scheduler drops queued jobs when the worker pool is saturated"


(***************************************************************************)
(* Properties of a run of main (SpecMain)                                  *)
(***************************************************************************)

\* get_ticket returned a record to main.
RecordFetched ==
    main_pc \in {"summary", "done"} /\ ticket.kind = "TicketData"

\* C27: once get_ticket has returned a record, whatever the backend does on
\* each attempt, no exception leaves generate_summary, at most three
\* attempts are made, and the run ends by printing a summary line with a
\* non-empty summary and with the success exit status, never 3 or 6.
SummaryNeverFailsRun ==
    RecordFetched
    => /\ ~raised
       /\ Len(calls) <= 3
       /\ main_pc = "summary" => pc \in {"start", "single", "ladder", "done"}
       /\ main_pc = "done"
            => /\ exit_code = 0
               /\ exit_code \notin {3, 6}
               /\ \E s \in {result, "No content available for summary"} :
                      /\ Len(s) > 0
                      /\ printed[Len(printed)] = format_summary_section(s)

\* C27 witness: the record was fetched, the backend raised on each of the
\* three attempts, and the run ended with a summary and status 0.
RunSurvivedFailingBackend ==
    /\ RecordFetched
    /\ main_pc = "done"
    /\ Len(outcomes) = 3
    /\ \A i \in 1..3 : outcomes[i].raised
    /\ exit_code = 0
    /\ printed[Len(printed)] = format_summary_section(result)


(***************************************************************************)
(* What generate_summary returns for long content (Spec)                   *)
(***************************************************************************)

\* C34: for content longer than 500 characters, what generate_summary
\* returns is a candidate of the backend that passes all six heuristics, or
\* it is the output of the fallback on that content; a candidate that fails
\* a heuristic is never returned as such.
LongResultValidatedOrFallback ==
    (pc = "done" /\ LongContent) =>
        /\ \/ /\ fallback_calls = <<>>
              /\ result = Strip(outcomes[Len(outcomes)].output)
              /\ SixHeuristics(result)
           \/ /\ fallback_calls = <<content>>
              /\ result = _fallback_summary(content)
        /\ \A i \in 1..Len(outcomes) :
               (~outcomes[i].raised /\ ~SixHeuristics(Strip(outcomes[i].output)))
               => \/ result # Strip(outcomes[i].output)
                  \/ result = _fallback_summary(content)

\* C34 witness: the backend gave a candidate of 31 words on each of the
\* three attempts; the fallback's output was returned, not the candidate.
InvalidCandidatesNotReturned ==
    /\ pc = "done"
    /\ LongContent
    /\ Len(outcomes) = 3
    /\ \A i \in 1..3 : ~outcomes[i].raised /\ outcomes[i].output = Words(31)
    /\ result = _fallback_summary(content)
    /\ result # Words(31)


\* ---------------------------------------------------------------------
\* A backend executable that is missing (SpecCall)
\* ---------------------------------------------------------------------

\* The launch of the call that has ended failed: the executable is missing.
LaunchFailedMissing == Finished /\ behaviour.kind = "FileNotFoundError"

\* C32: when Popen fails because the executable is missing, the call fails
\* with BackendNotFound, there is no child process afterwards, and neither
\* poll, kill nor wait is attempted: the call's steps are the launch and
\* the raise.
MissingBackendNoChild ==
    LaunchFailedMissing =>
        /\ LastOutcome.kind = "raise"
        /\ LastOutcome.type = "MCPClientError"
        /\ ErrorKind(LastOutcome.msg) = "BackendNotFound"
        /\ LastOutcome.msg = "MCP server not found at " \o ServerPath
        /\ process = 0
        /\ call_log[Len(call_log)].process = 0
        /\ children = <<>>
        /\ Ops(Len(call_log)) = <<"Popen", "raise">>

\* C32 witness: a call has ended whose launch found no executable.
MissingBackendCallEnded ==
    /\ LaunchFailedMissing
    /\ call_log # <<>>
    /\ LastOutcome.kind = "raise"
    /\ Count(Ops(Len(call_log)), "Popen") = 1


\* ---------------------------------------------------------------------
\* Runs that end before the summary (SpecMain)
\* ---------------------------------------------------------------------

\* The run ended with this exit code.
EndedWith(code) == main_pc = "done" /\ exit_code = code

\* normalize has been called and rejected the ticket reference.
ReferenceRejected ==
    /\ main_pc # "start"
    /\ ~config_info
    /\ ticket_id \notin {None, ""}
    /\ normalize(ticket_id) = NoMatch

\* The get_cr call of the run has ended: it raised, or returned a value.
AttributeFetchFailed ==
    /\ call_log # <<>>
    /\ call_log[1].tool_name = "get_cr"
    /\ call_log[1].outcome.kind = "raise"

AttributeFetchNotFound ==
    /\ call_log # <<>>
    /\ call_log[1].tool_name = "get_cr"
    /\ call_log[1].outcome.kind = "return"
    /\ ~Truthy(call_log[1].outcome.value)

\* main has gone past its call of get_ticket.
FetchHandled == main_pc \in {"summary", "done"}

\* C33: a run whose ticket reference normalize rejects starts no child
\* process, makes no generation attempt and ends with exit code 1; a run
\* whose get_cr call fails makes no generation attempt and ends with exit
\* code 2; a run whose get_cr call returns nothing makes no generation
\* attempt and ends with exit code 4.
EarlyEndsMakeNoAttempt ==
    /\ ReferenceRejected =>
           /\ children = <<>>
           /\ call_log = <<>>
           /\ trace = <<>>
           /\ calls = <<>>
           /\ EndedWith(EXIT_INVALID_INPUT)
    /\ AttributeFetchFailed =>
           /\ calls = <<>>
           /\ pc = "idle"
           /\ Len(call_log) = 1
           /\ FetchHandled => EndedWith(EXIT_MCP_ERROR)
    /\ AttributeFetchNotFound =>
           /\ calls = <<>>
           /\ pc = "idle"
           /\ Len(call_log) = 1
           /\ FetchHandled => EndedWith(EXIT_TICKET_NOT_FOUND)

\* C33 witness: runs of the three kinds have ended.
RejectedRunEnded == ReferenceRejected /\ EndedWith(EXIT_INVALID_INPUT)

FailedFetchRunEnded ==
    /\ AttributeFetchFailed
    /\ EndedWith(EXIT_MCP_ERROR)
    /\ children # <<>>

NotFoundRunEnded == AttributeFetchNotFound /\ EndedWith(EXIT_TICKET_NOT_FOUND)


\* ---------------------------------------------------------------------
\* The order of the external calls of one run (SpecMain)
\* ---------------------------------------------------------------------

\* The calls get_ticket makes for project p and ticket k, in order.
FetchCalls(p, k) ==
    <<[tool_name |-> "get_cr", params |-> CrParams(p, k)],
      [tool_name |-> "get_cr_section",
       params |-> SectionParams(p, k, "## Description")],
      [tool_name |-> "get_cr_section",
       params |-> SectionParams(p, k, "## Rationale")]>>

\* The calls that have ended, and the one under way, are the first of
\* FetchCalls in their order.
FetchCallsInOrder ==
    /\ Len(call_log) <= 3
    /\ \A n \in 1..Len(call_log) :
           /\ call_log[n].tool_name = FetchCalls(project, key)[n].tool_name
           /\ call_log[n].params = FetchCalls(project, key)[n].params
    /\ call_pc \notin {"idle", "done"} =>
           /\ Len(call_log) < 3
           /\ tool_name = FetchCalls(project, key)[Len(call_log) + 1].tool_name
           /\ params = FetchCalls(project, key)[Len(call_log) + 1].params

\* The generation attempts are made in the order of their index.
AttemptsInOrder == \A i \in 1..Len(calls) : calls[i].attempt = i

AllReaped == \A i \in 1..Len(children) : children[i].state = "reaped"

\* No child is started while an earlier one runs or waits to be reaped.
OneChildAtATime ==
    /\ \A i \in 1..(Len(children) - 1) : children[i].state = "reaped"
    /\ call_pc \in {"idle", "done", "Popen"} => AllReaped

\* generate_summary is entered only once get_ticket has returned the
\* ticket: no call is under way and every child is reaped.
GenerationAfterFetch ==
    (pc # "idle" \/ calls # <<>>) =>
        /\ ticket_pc = "done"
        /\ ticket.kind = "TicketData"
        /\ call_pc = "idle"
        /\ Len(call_log) = 3
        /\ AllReaped

\* get_ticket has returned the ticket.
FetchSucceeded == ticket_pc = "done" /\ ticket.kind = "TicketData"

\* The calls whose launch started a child.
Launched == {n \in 1..Len(call_log) : call_log[n].process # 0}

\* C31 as stated: the calls are made in order, one child at a time, the
\* generation after the last child is reaped, and a fetch that succeeded
\* has started exactly three children.
CallsInOrderThreeChildren ==
    /\ FetchCallsInOrder
    /\ AttemptsInOrder
    /\ OneChildAtATime
    /\ GenerationAfterFetch
    /\ FetchSucceeded => Len(children) = 3

\* C31: the calls of a run are one get_cr call, then the call for
\* '## Description', then the call for '## Rationale', then the generation
\* attempts in the order of their index; no child is started before the
\* earlier one is reaped, and the first generation attempt comes after the
\* last child is reaped.  A fetch that succeeded has made the three calls
\* and started one child for each call whose launch succeeded: the first,
\* and at most three.
CallsInOrderOneChildPerLaunch ==
    /\ FetchCallsInOrder
    /\ AttemptsInOrder
    /\ OneChildAtATime
    /\ GenerationAfterFetch
    /\ FetchSucceeded =>
           /\ Len(call_log) = 3
           /\ 1 \in Launched
           /\ Len(children) = Cardinality(Launched)
           /\ \A i \in 1..Len(children) :
                  \E n \in Launched : call_log[n].process = i

\* C31 witness: the summary is being generated after a fetch whose three
\* calls each started a child.
GenerationAfterThreeChildren ==
    /\ FetchSucceeded
    /\ Len(children) = 3
    /\ AllReaped
    /\ Len(calls) >= 2
    /\ AttemptsInOrder

\* A fetch that succeeded although a section's launch failed.
FetchSucceededWithFewerChildren ==
    /\ FetchSucceeded
    /\ Len(children) < 3

====
